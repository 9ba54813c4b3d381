----------------------------- MODULE MqttClient -----------------------------
(***************************************************************************)
(* The MQTT client of iotkit-embedded (mqtt/iotx_mqtt_client.c) as its     *)
(* threads see it: application threads that publish, the thread that       *)
(* yields (keep-alive, reconnection, reading, republishing), one TCP       *)
(* connection at a time, and the broker at its other end.                  *)
(*                                                                         *)
(* The locks are modelled by the grain of the actions.  lock_list_pub is   *)
(* held for a whole MQTTPublish and for a whole MQTTPubInfoProc, so those  *)
(* two exclude each other; client_state is read and written under          *)
(* lock_generic for one access only, so every window between a test of the *)
(* state and the packet or the assignment that follows it is a state here. *)
(*                                                                         *)
(* A definition marked "Fault" is a plausible error in the code modelled   *)
(* by the definition that follows it.  No action uses it: put in place of  *)
(* that definition, it makes a property of the model fail.                 *)
(***************************************************************************)
EXTENDS Naturals, Sequences, FiniteSets

CONSTANTS
  Publishers,                  \* application threads
  Msgs,                        \* calls of IOT_MQTT_Publish, each made once
  Qos1Msgs,                    \* those made with QoS 1; the others have QoS 0
  NoMsg,                       \* filler of the fields that carry no message
  IOTX_MC_PACKET_ID_MAX,       \* iotx_mqtt_config.h
  IOTX_MC_REPUB_NUM_MAX,
  IOTX_MC_KEEPALIVE_PROBE_MAX,
  IOTX_MC_RECONNECT_INTERVAL_MIN_MS,
  IOTX_MC_RECONNECT_INTERVAL_MAX_MS,
  MaxFaults,                   \* bound: how often the network or the broker may fail
  MaxInFlight                  \* bound: packets in flight when a node times out

ASSUME ClientAssumption ==
  /\ Qos1Msgs \subseteq Msgs
  /\ NoMsg \notin Msgs
  /\ IOTX_MC_PACKET_ID_MAX \in Nat \ {0}
  /\ IOTX_MC_REPUB_NUM_MAX \in Nat
  /\ IOTX_MC_KEEPALIVE_PROBE_MAX \in Nat
  /\ IOTX_MC_RECONNECT_INTERVAL_MIN_MS \in Nat \ {0}
  /\ IOTX_MC_RECONNECT_INTERVAL_MAX_MS \in Nat
  /\ IOTX_MC_RECONNECT_INTERVAL_MIN_MS <= IOTX_MC_RECONNECT_INTERVAL_MAX_MS
  /\ MaxFaults \in Nat
  /\ MaxInFlight \in Nat

VARIABLES
  client_state,        \* iotx_mc_state_t of the client
  packet_id,           \* last packet identifier handed out
  list_pub_wait_ack,   \* QoS 1 publishes that wait for their PUBACK
  keepalive_probes,    \* pings sent since a packet was last read
  ping_timer,          \* next_ping_time: "running" or "expired"
  reconnect_timer,     \* reconnect_next_time, likewise
  interval,            \* reconnect_time_interval_ms
  wait,                \* the countdown armed in reconnect_next_time
  yield,               \* where the yielding thread is
  pub,                 \* where each application thread is in a publish
  sock,                \* the TCP connection under ipstack
  session,             \* "open" once the broker has seen CONNECT on it, or "none"
  c2s, s2c,            \* packets in flight to and from the broker
  event,               \* the last event callback: "RECONNECT" or "DISCONNECT"
  accepted, refused,   \* publishes that returned success, that returned an error
  received,            \* publishes the broker has seen
  issued,              \* how many packet identifiers were handed out
  reused,              \* an identifier was handed out while still in use
  faults

clientVars == <<client_state, packet_id, list_pub_wait_ack, keepalive_probes>>
timerVars  == <<ping_timer, reconnect_timer, interval, wait>>
netVars    == <<sock, session, c2s, s2c>>
histVars   == <<accepted, refused, received, issued, reused, faults>>
vars == <<clientVars, timerVars, yield, pub, netVars, event, histVars>>

States == {"CONNECTED", "DISCONNECTED", "DISCONNECTED_RECONNECTING"}
Node == [msg_id : 1..IOTX_MC_PACKET_ID_MAX, msg : Qos1Msgs,
         node_state : {"NORMAL", "INVALID"}, timer : {"running", "expired"}]
Packet == [type : {"CONNECT", "PUBLISH", "PINGREQ", "CONNACK", "PUBACK", "PINGRESP"},
           id : 0..IOTX_MC_PACKET_ID_MAX, msg : Msgs \cup {NoMsg}]
Control(type) == [type |-> type, id |-> 0, msg |-> NoMsg]
Publish(id, m) == [type |-> "PUBLISH", id |-> id, msg |-> m]
Puback(id) == [type |-> "PUBACK", id |-> id, msg |-> NoMsg]

PublisherState == [pc : {"idle", "send", "fail"}, msg : Msgs \cup {NoMsg},
                   id : 0..IOTX_MC_PACKET_ID_MAX]
Idle == [pc |-> "idle", msg |-> NoMsg, id |-> 0]

Packets(chan) == {chan[i] : i \in DOMAIN chan}
Started == accepted \cup refused \cup {pub[t].msg : t \in Publishers}
\* Calls that returned success with QoS 1: the ones that must not be lost.
Promised == accepted \cap Qos1Msgs

-----------------------------------------------------------------------------
(* The state after IOT_MQTT_Construct has connected for the first time.    *)
Init ==
  /\ client_state = "CONNECTED"
  /\ packet_id = 0
  /\ list_pub_wait_ack = {}
  /\ keepalive_probes = 0
  /\ ping_timer = "running" /\ reconnect_timer = "running"
  /\ interval = IOTX_MC_RECONNECT_INTERVAL_MIN_MS
  /\ wait = IOTX_MC_RECONNECT_INTERVAL_MIN_MS
  /\ yield = "keepalive"
  /\ pub = [t \in Publishers |-> Idle]
  /\ sock = "up" /\ session = "open"
  /\ c2s = <<>> /\ s2c = <<>>
  /\ event = "RECONNECT"
  /\ accepted = {} /\ refused = {} /\ received = {}
  /\ issued = 0 /\ reused = FALSE
  /\ faults = 0

-----------------------------------------------------------------------------
(* Writing to the connection: iotx_mc_send_packet.  "dead" is a peer that  *)
(* vanished without a reset: the stack still takes bytes until its buffers *)
(* are full, and nothing arrives.                                          *)
WriteOk(p) ==
  /\ sock \in {"up", "dead"}
  /\ c2s' = IF sock = "up" THEN Append(c2s, p) ELSE c2s
WriteFails == sock \in {"dead", "broken", "closed"} /\ UNCHANGED c2s

\* ipstack.disconnect followed, unless s is "closed", by ipstack.connect.
Socket(s) ==
  /\ sock' = s
  /\ session' = "none"
  /\ c2s' = <<>> /\ s2c' = <<>>

-----------------------------------------------------------------------------
(* wrapper_mqtt_publish, called by application thread t.                   *)

\* Faults: the wrap is forgotten; it comes one identifier early.
NextPacketIdNoWrap == packet_id + 1
NextPacketIdEarlyWrap ==
  IF packet_id + 1 >= IOTX_MC_PACKET_ID_MAX THEN 1 ELSE packet_id + 1

\* iotx_mc_get_next_packetid: 16-bit identifiers, 0 is never used.
NextPacketId ==
  IF packet_id = IOTX_MC_PACKET_ID_MAX THEN 1 ELSE packet_id + 1

\* id still names an unacknowledged publish, a publish about to be sent or a
\* packet in flight.
InUse(id) ==
  \/ \E n \in list_pub_wait_ack : n.msg_id = id
  \/ \E t \in Publishers : pub[t].pc = "send" /\ pub[t].id = id
  \/ \E p \in Packets(c2s) \cup Packets(s2c) : p.id = id

\* The state test and the packet id; list and socket are not looked at yet.
PublishBegin(t, m) ==
  /\ pub[t].pc = "idle"
  /\ m \notin Started
  /\ client_state = "CONNECTED"
  /\ IF m \in Qos1Msgs
     THEN /\ packet_id' = NextPacketId
          /\ issued' = issued + 1
          /\ reused' = (reused \/ InUse(NextPacketId))
          /\ pub' = [pub EXCEPT ![t] = [pc |-> "send", msg |-> m, id |-> NextPacketId]]
     ELSE /\ pub' = [pub EXCEPT ![t] = [pc |-> "send", msg |-> m, id |-> 0]]
          /\ UNCHANGED <<packet_id, issued, reused>>
  /\ UNCHANGED <<client_state, list_pub_wait_ack, keepalive_probes, timerVars, yield,
                 netVars, event, accepted, refused, received, faults>>

\* MQTTPublish waits for lock_list_pub, which MQTTPubInfoProc may hold.
Sending(t) == pub[t].pc = "send" /\ yield # "proc"
\* Fault: off by one.
ListFullOffByOne == Cardinality(list_pub_wait_ack) > IOTX_MC_REPUB_NUM_MAX
ListFull == Cardinality(list_pub_wait_ack) >= IOTX_MC_REPUB_NUM_MAX
NewNode(t) == [msg_id |-> pub[t].id, msg |-> pub[t].msg,
               node_state |-> "NORMAL", timer |-> "running"]

PublishListFull(t) ==
  /\ Sending(t) /\ pub[t].msg \in Qos1Msgs /\ ListFull
  /\ pub' = [pub EXCEPT ![t] = Idle]
  /\ refused' = refused \cup {pub[t].msg}
  /\ UNCHANGED <<clientVars, timerVars, yield, netVars, event,
                 accepted, received, issued, reused, faults>>

\* The node is pushed before the packet is written.
PublishSent(t) ==
  /\ Sending(t)
  /\ IF pub[t].msg \in Qos1Msgs
     THEN /\ ~ListFull
          /\ list_pub_wait_ack' = list_pub_wait_ack \cup {NewNode(t)}
     ELSE UNCHANGED list_pub_wait_ack
  /\ WriteOk(Publish(pub[t].id, pub[t].msg))
  /\ pub' = [pub EXCEPT ![t] = Idle]
  /\ accepted' = accepted \cup {pub[t].msg}
  /\ UNCHANGED <<client_state, packet_id, keepalive_probes, timerVars, yield, sock, session,
                 s2c, event, refused, received, issued, reused, faults>>

\* Fault: the node stays on the list after a failed write.
PublishFailedKeepsNode(t) ==
  /\ Sending(t)
  /\ pub[t].msg \in Qos1Msgs => ~ListFull
  /\ WriteFails
  /\ pub' = [pub EXCEPT ![t].pc = "fail"]
  /\ refused' = refused \cup {pub[t].msg}
  /\ list_pub_wait_ack' = IF pub[t].msg \in Qos1Msgs
                          THEN list_pub_wait_ack \cup {NewNode(t)} ELSE list_pub_wait_ack
  /\ UNCHANGED <<client_state, packet_id, keepalive_probes, timerVars, yield, sock, session, s2c,
                 event, accepted, received, issued, reused, faults>>

\* A failed write takes the node off the list again; the state is set only
\* after both locks are released.
PublishFailed(t) ==
  /\ Sending(t)
  /\ pub[t].msg \in Qos1Msgs => ~ListFull
  /\ WriteFails
  /\ pub' = [pub EXCEPT ![t].pc = "fail"]
  /\ refused' = refused \cup {pub[t].msg}
  /\ UNCHANGED <<clientVars, timerVars, yield, sock, session, s2c, event,
                 accepted, received, issued, reused, faults>>

PublishSetState(t) ==
  /\ pub[t].pc = "fail"
  /\ client_state' = "DISCONNECTED"
  /\ pub' = [pub EXCEPT ![t] = Idle]
  /\ UNCHANGED <<packet_id, list_pub_wait_ack, keepalive_probes, timerVars, yield, netVars,
                 event, histVars>>

-----------------------------------------------------------------------------
(* wrapper_mqtt_yield, first half: iotx_mc_keepalive under lock_yield.     *)

PingNow == client_state = "CONNECTED" /\ ping_timer = "expired"

\* iotx_mc_keepalive_sub: the timer is re-armed before the ping is written.
KeepalivePing ==
  /\ yield = "keepalive" /\ PingNow
  /\ ping_timer' = "running"
  /\ yield' = "state"
  /\ \/ /\ WriteOk(Control("PINGREQ"))
        /\ keepalive_probes' = keepalive_probes + 1
        /\ UNCHANGED client_state
     \/ /\ WriteFails
        /\ client_state' = "DISCONNECTED"
        /\ UNCHANGED keepalive_probes
  /\ UNCHANGED <<packet_id, list_pub_wait_ack, reconnect_timer, interval, wait, pub, sock,
                 session, s2c, event, accepted, refused, received, issued, reused, faults>>

\* The thread is about to read currentState.
AtState(s) ==
  /\ yield = "state" \/ (yield = "keepalive" /\ ~PingNow)
  /\ client_state = s

KeepaliveConnected ==
  /\ AtState("CONNECTED")
  /\ yield' = "cycle"
  /\ UNCHANGED <<clientVars, timerVars, pub, netVars, event, histVars>>

\* Fault: the state is not set, and every turn closes the connection again.
KeepaliveDisconnectedStays ==
  /\ AtState("DISCONNECTED")
  /\ event' = "DISCONNECT"
  /\ interval' = IOTX_MC_RECONNECT_INTERVAL_MIN_MS
  /\ wait' = IOTX_MC_RECONNECT_INTERVAL_MIN_MS
  /\ reconnect_timer' = "running"
  /\ Socket("closed")
  /\ yield' = "cycle"
  /\ UNCHANGED <<clientVars, ping_timer, pub, histVars>>

\* The DISCONNECT callback, then the socket is closed and the first wait armed.
KeepaliveDisconnected ==
  /\ AtState("DISCONNECTED")
  /\ event' = "DISCONNECT"
  /\ interval' = IOTX_MC_RECONNECT_INTERVAL_MIN_MS
  /\ wait' = IOTX_MC_RECONNECT_INTERVAL_MIN_MS
  /\ reconnect_timer' = "running"
  /\ Socket("closed")
  /\ client_state' = "DISCONNECTED_RECONNECTING"
  /\ yield' = "cycle"
  /\ UNCHANGED <<packet_id, list_pub_wait_ack, keepalive_probes, ping_timer, pub, histVars>>

KeepaliveWaits ==
  /\ AtState("DISCONNECTED_RECONNECTING") /\ reconnect_timer = "running"
  /\ yield' = "cycle"
  /\ UNCHANGED <<clientVars, timerVars, pub, netVars, event, histVars>>

\* Fault: an interval past its maximum starts over.
NextIntervalStartsOver ==
  IF interval < IOTX_MC_RECONNECT_INTERVAL_MAX_MS
  THEN 2 * interval ELSE IOTX_MC_RECONNECT_INTERVAL_MIN_MS

\* iotx_mc_handle_reconnect after a failure: the interval doubles, the wait is
\* capped.  The client state is left as it is.
NextInterval ==
  IF interval < IOTX_MC_RECONNECT_INTERVAL_MAX_MS
  THEN 2 * interval ELSE IOTX_MC_RECONNECT_INTERVAL_MAX_MS
\* Fault: the doubled interval is armed as it is.
Uncapped(ms) == ms
Capped(ms) ==
  IF IOTX_MC_RECONNECT_INTERVAL_MAX_MS < ms THEN IOTX_MC_RECONNECT_INTERVAL_MAX_MS ELSE ms

ReconnectFailed ==
  /\ interval' = NextInterval
  /\ wait' = Capped(NextInterval)
  /\ reconnect_timer' = "running"
  /\ yield' = "cycle"
  /\ UNCHANGED ping_timer

\* iotx_mc_attempt_reconnect and wrapper_mqtt_connect up to the TCP connection.
\* Once that failed, the CONNECT that is tried all the same fails as well.
TcpConnected ==
  /\ AtState("DISCONNECTED_RECONNECTING") /\ reconnect_timer = "expired"
  /\ Socket("up")
  /\ yield' = "connect"
  /\ UNCHANGED <<clientVars, timerVars, pub, event, histVars>>

TcpRefused ==
  /\ AtState("DISCONNECTED_RECONNECTING") /\ reconnect_timer = "expired"
  /\ Socket("closed")
  /\ ReconnectFailed
  /\ UNCHANGED <<clientVars, pub, event, histVars>>

\* MQTTConnect
ConnectSent ==
  /\ yield = "connect"
  /\ WriteOk(Control("CONNECT"))
  /\ yield' = "connack"
  /\ UNCHANGED <<clientVars, timerVars, pub, sock, session, s2c, event, histVars>>

\* Fault: the return code of MQTTConnect is ignored.
ConnectNotSentIgnored ==
  /\ yield = "connect"
  /\ sock \in {"dead", "broken", "closed"}
  /\ Socket("closed")
  /\ yield' = "connected"
  /\ UNCHANGED <<clientVars, timerVars, pub, event, histVars>>

ConnectNotSent ==
  /\ yield = "connect"
  /\ sock \in {"dead", "broken", "closed"}
  /\ Socket("closed")
  /\ ReconnectFailed
  /\ UNCHANGED <<clientVars, pub, event, histVars>>

\* iotx_mc_wait_CONNACK succeeds: _mqtt_connect sets the state a first time.
ConnackAccepted ==
  /\ yield = "connack"
  /\ s2c # <<>> /\ Head(s2c).type = "CONNACK"
  /\ s2c' = Tail(s2c)
  /\ client_state' = "CONNECTED"
  /\ ping_timer' = "running"
  /\ yield' = "connected"
  /\ UNCHANGED <<packet_id, list_pub_wait_ack, keepalive_probes, reconnect_timer, interval, wait,
                 pub, sock, session, c2s, event, accepted, refused, received, issued, reused,
                 faults>>

\* CONNACK carries a refusal: no second try in this attempt.
ConnackRefused ==
  /\ yield = "connack"
  /\ s2c # <<>> /\ Head(s2c).type = "CONNACK"
  /\ faults < MaxFaults /\ faults' = faults + 1
  /\ Socket("closed")
  /\ ReconnectFailed
  /\ UNCHANGED <<clientVars, pub, event, accepted, refused, received, issued, reused>>

\* No CONNACK: the socket is replaced, whatever that yields, and CONNECT is
\* tried again or, after the last try, the attempt is given up.
ConnackMissing ==
  /\ yield = "connack"
  /\ sock \in {"dead", "broken"}
  /\ \E s \in {"up", "closed"} : Socket(s)
  /\ \/ yield' = "connect" /\ UNCHANGED timerVars
     \/ ReconnectFailed
  /\ UNCHANGED <<clientVars, pub, event, histVars>>

\* Fault: the RECONNECT callback is left out.
ReconnectedSilently ==
  /\ yield = "connected"
  /\ client_state' = "CONNECTED"
  /\ interval' = IOTX_MC_RECONNECT_INTERVAL_MIN_MS
  /\ yield' = "cycle"
  /\ UNCHANGED <<packet_id, list_pub_wait_ack, keepalive_probes, ping_timer, reconnect_timer, wait,
                 pub, netVars, event, histVars>>

\* iotx_mc_handle_reconnect sets the state a second time, then the RECONNECT
\* callback runs and the interval starts over.
Reconnected ==
  /\ yield = "connected"
  /\ client_state' = "CONNECTED"
  /\ event' = "RECONNECT"
  /\ interval' = IOTX_MC_RECONNECT_INTERVAL_MIN_MS
  /\ yield' = "cycle"
  /\ UNCHANGED <<packet_id, list_pub_wait_ack, keepalive_probes, ping_timer, reconnect_timer, wait,
                 pub, netVars, histVars>>

-----------------------------------------------------------------------------
(* wrapper_mqtt_yield, second half: _mqtt_cycle under lock_yield.          *)

CycleNotConnected ==
  /\ yield = "cycle" /\ client_state # "CONNECTED"
  /\ yield' = "keepalive"
  /\ UNCHANGED <<clientVars, timerVars, pub, netVars, event, histVars>>

\* The head of iotx_mc_cycle: too many silent probes give the connection up,
\* and the read that follows is made all the same.
ProbesExceeded == IOTX_MC_KEEPALIVE_PROBE_MAX < keepalive_probes
StateAfterProbes == IF ProbesExceeded THEN "DISCONNECTED" ELSE client_state
Reading == yield = "cycle" /\ client_state = "CONNECTED"

CycleReadError ==
  /\ Reading
  /\ sock \in {"broken", "closed"}
  /\ client_state' = "DISCONNECTED"
  /\ keepalive_probes' = IF ProbesExceeded THEN 0 ELSE keepalive_probes
  /\ yield' = "keepalive"
  /\ UNCHANGED <<packet_id, list_pub_wait_ack, timerVars, pub, netVars, event, histVars>>

CycleReadNothing ==
  /\ Reading
  /\ s2c = <<>> /\ sock \in {"up", "dead"}
  /\ client_state' = StateAfterProbes
  /\ keepalive_probes' = IF ProbesExceeded THEN 0 ELSE keepalive_probes
  /\ yield' = "proc"
  /\ UNCHANGED <<packet_id, list_pub_wait_ack, timerVars, pub, netVars, event, histVars>>

\* Fault: any PUBACK acknowledges all the nodes.
MaskedAll(id) == {[n EXCEPT !.node_state = "INVALID"] : n \in list_pub_wait_ack}

\* iotx_mc_mask_pubInfo_from: every node with the acknowledged identifier.
Masked(id) ==
  {IF n.msg_id = id THEN [n EXCEPT !.node_state = "INVALID"] ELSE n : n \in list_pub_wait_ack}

CycleReadPacket ==
  /\ Reading
  /\ s2c # <<>>
  /\ s2c' = Tail(s2c)
  /\ client_state' = StateAfterProbes
  /\ keepalive_probes' = 0
  /\ list_pub_wait_ack' = IF Head(s2c).type = "PUBACK"
                          THEN Masked(Head(s2c).id) ELSE list_pub_wait_ack
  /\ yield' = "proc"
  /\ UNCHANGED <<packet_id, timerVars, pub, sock, session, c2s, event,
                 accepted, refused, received, issued, reused, faults>>

\* MQTTPubInfoProc walks the list under lock_list_pub.
ProcRemove(n) ==
  /\ yield = "proc"
  /\ n \in list_pub_wait_ack /\ n.node_state = "INVALID"
  /\ list_pub_wait_ack' = list_pub_wait_ack \ {n}
  /\ UNCHANGED <<client_state, packet_id, keepalive_probes, timerVars, yield, pub, netVars,
                 event, histVars>>

MustRepublish(n) ==
  n \in list_pub_wait_ack /\ n.node_state = "NORMAL" /\ n.timer = "expired" /\ client_state = "CONNECTED"
\* Fault: a node is dropped after its first republish.
RestartedOnce(n) == list_pub_wait_ack \ {n}
Restarted(n) == (list_pub_wait_ack \ {n}) \cup {[n EXCEPT !.timer = "running"]}

ProcRepublish(n) ==
  /\ yield = "proc" /\ MustRepublish(n)
  /\ WriteOk(Publish(n.msg_id, n.msg))
  /\ list_pub_wait_ack' = Restarted(n)
  /\ UNCHANGED <<client_state, packet_id, keepalive_probes, timerVars, yield, pub, sock, session,
                 s2c, event, histVars>>

\* The walk ends at the first node that cannot be written.
ProcRepublishFails(n) ==
  /\ yield = "proc" /\ MustRepublish(n)
  /\ WriteFails
  /\ list_pub_wait_ack' = Restarted(n)
  /\ client_state' = "DISCONNECTED"
  /\ yield' = "keepalive"
  /\ UNCHANGED <<packet_id, keepalive_probes, timerVars, pub, sock, session, s2c, event, histVars>>

ProcDone ==
  /\ yield = "proc"
  /\ \A n \in list_pub_wait_ack : n.node_state = "NORMAL" /\ ~MustRepublish(n)
  /\ yield' = "keepalive"
  /\ UNCHANGED <<clientVars, timerVars, pub, netVars, event, histVars>>

-----------------------------------------------------------------------------
(* The broker, the network and the clock.                                  *)

BrokerAccepts(p) ==
  CASE p.type = "CONNECT" ->
         s2c' = Append(s2c, Control("CONNACK")) /\ session' = "open" /\ UNCHANGED received
    [] p.type = "PINGREQ" ->
         s2c' = Append(s2c, Control("PINGRESP")) /\ UNCHANGED <<session, received>>
    [] OTHER ->
         /\ received' = received \cup {p.msg}
         /\ s2c' = IF p.msg \in Qos1Msgs THEN Append(s2c, Puback(p.id)) ELSE s2c
         /\ UNCHANGED session

\* A packet other than CONNECT that opens a connection makes the broker close it.
BrokerReceives ==
  /\ sock = "up" /\ c2s # <<>>
  /\ IF session = "open" \/ Head(c2s).type = "CONNECT"
     THEN /\ BrokerAccepts(Head(c2s))
          /\ c2s' = Tail(c2s)
          /\ UNCHANGED sock
     ELSE Socket("broken") /\ UNCHANGED received
  /\ UNCHANGED <<clientVars, timerVars, yield, pub, event,
                 accepted, refused, issued, reused, faults>>

\* A working connection resets or falls silent; a silent one may still reset.
NetworkFails(s) ==
  /\ \/ sock = "up" /\ faults < MaxFaults /\ faults' = faults + 1
     \/ sock = "dead" /\ s = "broken" /\ UNCHANGED faults
  /\ Socket(s)
  /\ UNCHANGED <<clientVars, timerVars, yield, pub, event,
                 accepted, refused, received, issued, reused>>

\* The keep-alive interval (30 s or more) is longer than a round trip: on a
\* working connection no ping is under way when the next one falls due.
PingUnderWay ==
  \E p \in Packets(c2s) \cup Packets(s2c) : p.type \in {"PINGREQ", "PINGRESP"}
PingTimer ==
  /\ client_state = "CONNECTED" /\ ping_timer = "running" /\ ~PingUnderWay
  /\ ping_timer' = "expired"
  /\ UNCHANGED <<clientVars, reconnect_timer, interval, wait, yield, pub, netVars, event, histVars>>

ReconnectTimer ==
  /\ client_state = "DISCONNECTED_RECONNECTING" /\ reconnect_timer = "running"
  /\ reconnect_timer' = "expired"
  /\ UNCHANGED <<clientVars, ping_timer, interval, wait, yield, pub, netVars, event, histVars>>

\* pub_start_time lies more than twice request_timeout_ms back.  One walk over the
\* list looks at every node once, so no node falls due again in the walk that
\* restarted its timer.
NodeTimeout(m) ==
  /\ yield # "proc"
  /\ Len(c2s) + Len(s2c) < MaxInFlight
  /\ \E n \in list_pub_wait_ack :
       /\ n.msg = m /\ n.node_state = "NORMAL" /\ n.timer = "running"
       /\ list_pub_wait_ack' = (list_pub_wait_ack \ {n}) \cup {[n EXCEPT !.timer = "expired"]}
  /\ UNCHANGED <<client_state, packet_id, keepalive_probes, timerVars, yield, pub, netVars,
                 event, histVars>>

-----------------------------------------------------------------------------
PublishStep ==
  \E t \in Publishers :
    \/ \E m \in Msgs : PublishBegin(t, m)
    \/ PublishListFull(t) \/ PublishSent(t) \/ PublishFailed(t) \/ PublishSetState(t)

TcpConnect == TcpConnected \/ TcpRefused
KeepaliveStep ==
  \/ KeepalivePing \/ KeepaliveConnected \/ KeepaliveDisconnected \/ KeepaliveWaits
  \/ TcpConnect \/ ConnectSent \/ ConnectNotSent
  \/ ConnackAccepted \/ ConnackRefused \/ ConnackMissing \/ Reconnected

CycleStep ==
  \/ CycleNotConnected \/ CycleReadError \/ CycleReadNothing \/ CycleReadPacket
  \/ \E n \in list_pub_wait_ack : ProcRemove(n) \/ ProcRepublish(n) \/ ProcRepublishFails(n)
  \/ ProcDone

NetworkStep == BrokerReceives \/ \E s \in {"dead", "broken"} : NetworkFails(s)
ClockStep == PingTimer \/ ReconnectTimer \/ \E m \in Qos1Msgs : NodeTimeout(m)

Next == PublishStep \/ KeepaliveStep \/ CycleStep \/ NetworkStep \/ ClockStep

Spec == Init /\ [][Next]_vars

\* The application keeps calling yield, the clock runs, the broker serves a
\* working connection, and one of the TCP connections asked for succeeds.
Fairness ==
  /\ WF_vars(KeepaliveStep) /\ WF_vars(CycleStep) /\ SF_vars(TcpConnected)
  /\ WF_vars(BrokerReceives)
  /\ SF_vars(PingTimer) /\ WF_vars(ReconnectTimer)
  /\ \A m \in Qos1Msgs : SF_vars(NodeTimeout(m))
FairSpec == Spec /\ Fairness

-----------------------------------------------------------------------------
(* Properties.                                                             *)

TypeOK ==
  /\ client_state \in States
  /\ packet_id \in 0..IOTX_MC_PACKET_ID_MAX
  /\ list_pub_wait_ack \subseteq Node
  /\ keepalive_probes \in Nat
  /\ ping_timer \in {"running", "expired"} /\ reconnect_timer \in {"running", "expired"}
  /\ interval \in Nat /\ wait \in Nat
  /\ yield \in {"keepalive", "state", "connect", "connack", "connected", "cycle", "proc"}
  /\ pub \in [Publishers -> PublisherState]
  /\ sock \in {"up", "dead", "broken", "closed"} /\ session \in {"none", "open"}
  /\ c2s \in Seq(Packet) /\ s2c \in Seq(Packet)
  /\ event \in {"RECONNECT", "DISCONNECT"}
  /\ accepted \subseteq Msgs /\ refused \subseteq Msgs /\ received \subseteq Msgs
  /\ issued \in Nat /\ reused \in BOOLEAN
  /\ faults \in Nat

\* A QoS 1 message whose publish returned success has reached the broker or is
\* still a live node of list_pub_wait_ack, whatever acknowledgements, republishes,
\* lost connections and other publishers came in between: MQTTPubInfoProc and
\* iotx_mc_mask_pubInfo_from drop nothing too early.  It holds as long as no
\* packet identifier was handed out while it was still in use.
NoAcceptedMessageLost ==
  ~reused => \A m \in Promised \ received :
    \E n \in list_pub_wait_ack : n.msg = m /\ n.node_state = "NORMAL"

\* A publish that returned an error is never delivered and is not waiting to be
\* republished: the caller of IOT_MQTT_Publish may repeat the call.
RefusedIsNeverDelivered ==
  /\ refused \cap received = {}
  /\ \A n \in list_pub_wait_ack : n.msg \notin refused

\* iotx_mc_get_next_packetid hands out an identifier that is still in use only
\* after it went through all of them.
ReuseTakesAWrap == reused => issued > IOTX_MC_PACKET_ID_MAX

\* No thread leaves the client marked as connected with its socket closed, although
\* publishers and the yielding thread write client_state without holding a lock
\* from the failure they report to the assignment.
ConnectedMeansOpen == client_state = "CONNECTED" => sock # "closed"

\* Outside the callback window, a connected client has told the application so:
\* the last of the DISCONNECT and RECONNECT events it delivered was RECONNECT.
ConnectedIsAnnounced ==
  client_state = "CONNECTED" /\ yield # "connected" => event = "RECONNECT"

\* While the client waits to reconnect, the wait that is armed lies within the
\* configured limits, however often the interval was doubled or started over.
WaitWithinLimits ==
  /\ IOTX_MC_RECONNECT_INTERVAL_MIN_MS <= wait
  /\ wait <= IOTX_MC_RECONNECT_INTERVAL_MAX_MS

\* From one failed attempt to the next the wait never shrinks; it starts over only
\* when a connection was lost (iotx_mc_keepalive, the DISCONNECTED branch).
WaitNeverShrinks ==
  [][wait' < wait => client_state = "DISCONNECTED"]_vars

\* list_pub_wait_ack never outgrows its limit: the limit is tested in the critical
\* section of the insertion, however many threads passed the state test before it.
PendingWithinLimit == Cardinality(list_pub_wait_ack) <= IOTX_MC_REPUB_NUM_MAX

\* Every QoS 1 message whose publish returned success reaches the broker in the
\* end, across silent and reset connections: pings find the dead connection, the
\* client reconnects and MQTTPubInfoProc republishes.
AcceptedIsDelivered ==
  \A m \in Qos1Msgs : m \in accepted ~> m \in received

\* When network and broker have stopped failing the client ends up connected for good, on a
\* connection that works, and the application has been told.
StaysConnected == <>[](client_state = "CONNECTED" /\ sock = "up" /\ event = "RECONNECT")

\* The client implements the at-least-once contract of its QoS 1 messages.
Held == {n.msg : n \in list_pub_wait_ack}
AbsStatus == [m \in Qos1Msgs |->
  IF m \in Held THEN "held" ELSE IF m \in accepted THEN "settled" ELSE "new"]
Abstract == INSTANCE AtLeastOnce WITH
  Msgs <- Qos1Msgs, status <- AbsStatus, delivered <- received \cap Qos1Msgs
ImplementsAtLeastOnce == Abstract!Spec

=============================================================================
