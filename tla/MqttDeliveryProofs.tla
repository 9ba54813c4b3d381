-------------------------- MODULE MqttDeliveryProofs --------------------------
(* Theorems about what becomes of a published message in MqttClient: no    *)
(* accepted message is lost, no refused one is delivered, identifiers and  *)
(* the republish list stay within their limits.                            *)
EXTENDS MqttClientProofs, FiniteSetTheorems

LEMMA PacketsAppend ==
  ASSUME NEW S, NEW chan \in Seq(S), NEW p \in S
  PROVE  Packets(Append(chan, p)) = Packets(chan) \cup {p}
<1>1. DOMAIN Append(chan, p) = 1..(Len(chan) + 1) /\ DOMAIN chan = 1..Len(chan) /\ Len(chan) \in Nat
  OBVIOUS
<1>2. \A i \in DOMAIN chan : Append(chan, p)[i] = chan[i]
  BY <1>1
<1>3. Append(chan, p)[Len(chan) + 1] = p
  BY <1>1
<1>4. QED
  BY <1>1, <1>2, <1>3 DEF Packets

LEMMA PacketsTail ==
  ASSUME NEW S, NEW chan \in Seq(S), chan # << >>
  PROVE  /\ Packets(Tail(chan)) \subseteq Packets(chan)
         /\ Head(chan) \in Packets(chan)
  BY SeqTail DEF Packets

LEMMA PacketsEmpty == Packets(<< >>) = {}
  BY DEF Packets

\* A write adds at most the packet that is written.
LEMMA PacketsWritten ==
  ASSUME c2s \in Seq(Packet), NEW p \in Packet, WriteOk(p)
  PROVE  Packets(c2s)' \subseteq Packets(c2s) \cup {p}
<1>1. CASE c2s' = c2s
  BY <1>1 DEF Packets
<1>2. CASE c2s' = Append(c2s, p)
  BY <1>2, PacketsAppend DEF Packets
<1>3. QED
  BY <1>1, <1>2 DEF WriteOk

-----------------------------------------------------------------------------
(* The steps that matter to publishing, and all the others.                *)

\* A step that leaves publishers, list and identifiers alone, and adds no PUBLISH and
\* no PUBACK to the connection.
Quiet ==
  /\ UNCHANGED <<list_pub_wait_ack, pub, packet_id, accepted, refused, received, issued, reused>>
  /\ \A p \in Packets(c2s)' : p \in Packets(c2s) \/ (p.id = 0 /\ p.type # "PUBLISH")
  /\ \A p \in Packets(s2c)' : p \in Packets(s2c) \/ (p.id = 0 /\ p.type # "PUBACK")

LEMMA KeepaliveQuiet == TypeInv /\ KeepaliveStep => Quiet
<1> SUFFICES ASSUME TypeInv, KeepaliveStep PROVE Quiet
  OBVIOUS
<1> USE DEF Quiet, clientVars, timerVars, netVars, histVars
<1>1. c2s \in Seq(Packet) /\ s2c \in Seq(Packet)
  BY DEF TypeInv, TypeOK
<1>2. CASE UNCHANGED <<c2s, s2c>> /\ UNCHANGED <<list_pub_wait_ack, pub, packet_id, accepted, refused,
                                              received, issued, reused>>
  BY <1>2 DEF Packets
<1>3. ASSUME NEW s, Socket(s) PROVE Packets(c2s)' = {} /\ Packets(s2c)' = {}
  BY <1>3 DEF Socket, Packets
<1>4. ASSUME NEW type \in {"CONNECT", "PINGREQ"}, WriteOk(Control(type)), UNCHANGED s2c
      PROVE  /\ \A p \in Packets(c2s)' : p \in Packets(c2s) \/ (p.id = 0 /\ p.type # "PUBLISH")
             /\ Packets(s2c)' = Packets(s2c)
  <2>1. Control(type).id = 0 /\ Control(type).type # "PUBLISH"
    BY <1>4 DEF Control
  <2>2. QED
    BY <1>1, <1>4, <2>1, PacketType, PacketsWritten DEF Packets
<1>5. CASE KeepalivePing
  <2>1. CASE WriteOk(Control("PINGREQ"))
    BY <1>4, <1>5, <2>1 DEF KeepalivePing
  <2>2. CASE WriteFails
    BY <1>2, <1>5, <2>2 DEF KeepalivePing, WriteFails
  <2>3. QED
    BY <1>5, <2>1, <2>2 DEF KeepalivePing
<1>6. CASE KeepaliveConnected \/ KeepaliveWaits \/ Reconnected
  BY <1>2, <1>6 DEF KeepaliveConnected, KeepaliveWaits, Reconnected
<1>7. CASE KeepaliveDisconnected
  BY <1>3, <1>7 DEF KeepaliveDisconnected
<1>8. CASE TcpConnected \/ TcpRefused
  BY <1>3, <1>8 DEF TcpConnected, TcpRefused
<1>9. CASE ConnectSent
  BY <1>4, <1>9 DEF ConnectSent
<1>10. CASE ConnectNotSent \/ ConnackRefused \/ ConnackMissing
  BY <1>3, <1>10 DEF ConnectNotSent, ConnackRefused, ConnackMissing
<1>11. CASE ConnackAccepted
  <2>1. Packets(c2s)' = Packets(c2s) /\ Packets(s2c)' \subseteq Packets(s2c)
    BY <1>1, <1>11, PacketsTail DEF ConnackAccepted, Packets
  <2>2. QED
    BY <1>11, <2>1 DEF ConnackAccepted
<1>12. QED
  BY <1>5, <1>6, <1>7, <1>8, <1>9, <1>10, <1>11 DEF KeepaliveStep, TcpConnect

\* The broker takes a PUBLISH from the connection and answers it.
Delivers(p) ==
  /\ p \in Packets(c2s) /\ p.type = "PUBLISH"
  /\ received' = received \cup {p.msg}
  /\ Packets(c2s)' \subseteq Packets(c2s)
  /\ \A q \in Packets(s2c)' : q \in Packets(s2c) \/ (q = Puback(p.id) /\ p.msg \in Qos1Msgs)
  /\ UNCHANGED <<list_pub_wait_ack, pub, packet_id, accepted, refused, issued, reused>>

\* The timer of a live node changes, and the node may be written once more.
Retimes(n) ==
  /\ n \in list_pub_wait_ack /\ n.node_state = "NORMAL"
  /\ \E timer \in {"running", "expired"} :
       list_pub_wait_ack' = (list_pub_wait_ack \ {n}) \cup {[n EXCEPT !.timer = timer]}
  /\ Packets(c2s)' \subseteq Packets(c2s) \cup {Publish(n.msg_id, n.msg)}
  /\ Packets(s2c)' = Packets(s2c)
  /\ UNCHANGED <<pub, packet_id, accepted, refused, received, issued, reused>>

LEMMA BrokerCases ==
  ASSUME TypeInv, BrokerReceives
  PROVE  Quiet \/ \E p \in Packet : Delivers(p)
<1> USE DEF clientVars, timerVars, netVars, histVars
<1> DEFINE h == Head(c2s)
<1>1. /\ c2s \in Seq(Packet) /\ s2c \in Seq(Packet) /\ c2s # << >>
      /\ UNCHANGED <<list_pub_wait_ack, pub, packet_id, accepted, refused, issued, reused>>
  BY DEF TypeInv, TypeOK, BrokerReceives
<1>2. /\ h \in Packet /\ h \in Packets(c2s) /\ Packets(Tail(c2s)) \subseteq Packets(c2s)
      /\ h.type \in {"CONNECT", "PINGREQ", "PUBLISH"}
  BY <1>1, SeqTail, PacketsTail DEF TypeInv, ToBrokerOK
<1>3. CASE ~(session = "open" \/ h.type = "CONNECT")
  BY <1>1, <1>3 DEF BrokerReceives, Socket, Quiet, Packets
<1>4. CASE session = "open" \/ h.type = "CONNECT"
  <2>1. BrokerAccepts(h) /\ c2s' = Tail(c2s)
    BY <1>4 DEF BrokerReceives
  <2>2. Packets(c2s)' \subseteq Packets(c2s)
    BY <1>2, <2>1 DEF Packets
  <2>3. CASE h.type \in {"CONNECT", "PINGREQ"}
    <3>1. \E type \in {"CONNACK", "PINGRESP"} : s2c' = Append(s2c, Control(type)) /\ received' = received
      BY <2>1, <2>3 DEF BrokerAccepts
    <3>2. \E type \in {"CONNACK", "PINGRESP"} : Packets(s2c)' = Packets(s2c) \cup {Control(type)}
      <4>1. PICK type \in {"CONNACK", "PINGRESP"} : s2c' = Append(s2c, Control(type))
        BY <3>1
      <4>2. Control(type) \in Packet
        BY PacketType
      <4>3. Packets(Append(s2c, Control(type))) = Packets(s2c) \cup {Control(type)}
        BY <1>1, <4>2, PacketsAppend
      <4>4. Packets(s2c)' = Packets(Append(s2c, Control(type)))
        BY <4>1 DEF Packets
      <4>5. QED
        BY <4>3, <4>4
    <3>3. \A type \in {"CONNACK", "PINGRESP"} : Control(type).id = 0 /\ Control(type).type # "PUBACK"
      BY DEF Control
    <3>4. QED
      BY <1>1, <2>2, <3>1, <3>2, <3>3 DEF Quiet
  <2>4. CASE h.type = "PUBLISH"
    <3>1. /\ received' = received \cup {h.msg}
          /\ s2c' = IF h.msg \in Qos1Msgs THEN Append(s2c, Puback(h.id)) ELSE s2c
      BY <2>1, <2>4 DEF BrokerAccepts
    <3>2. Puback(h.id) \in Packet
      BY <1>2, PacketType DEF Packet
    <3>3. \A q \in Packets(s2c)' : q \in Packets(s2c) \/ (q = Puback(h.id) /\ h.msg \in Qos1Msgs)
      <4>1. CASE h.msg \in Qos1Msgs
        <5>1. Packets(s2c)' = Packets(s2c) \cup {Puback(h.id)}
          BY <1>1, <3>1, <3>2, <4>1, PacketsAppend DEF Packets
        <5>2. QED
          BY <4>1, <5>1
      <4>2. CASE h.msg \notin Qos1Msgs
        BY <3>1, <4>2 DEF Packets
      <4>3. QED
        BY <4>1, <4>2
    <3>4. Delivers(h)
      BY <1>1, <1>2, <2>2, <2>4, <3>1, <3>3 DEF Delivers
    <3>5. QED
      BY <1>2, <3>4
  <2>5. QED
    BY <1>2, <2>3, <2>4
<1>5. QED
  BY <1>3, <1>4

LEMMA StepCases ==
  ASSUME TypeInv, [Next]_vars
  PROVE  \/ Quiet
         \/ \E t \in Publishers :
              \/ \E m \in Msgs : PublishBegin(t, m)
              \/ PublishListFull(t) \/ PublishSent(t) \/ PublishFailed(t) \/ PublishSetState(t)
         \/ CycleReadPacket
         \/ \E n \in list_pub_wait_ack : ProcRemove(n) \/ Retimes(n)
         \/ \E p \in Packet : Delivers(p)
<1> USE DEF clientVars, timerVars, netVars, histVars
<1>1. CASE PublishStep
  BY <1>1 DEF PublishStep
<1>2. CASE KeepaliveStep
  BY <1>2, KeepaliveQuiet
<1>3. CASE CycleStep
  <2>1. CASE CycleNotConnected \/ CycleReadError \/ CycleReadNothing \/ ProcDone
    BY <2>1 DEF CycleNotConnected, CycleReadError, CycleReadNothing, ProcDone, Quiet, Packets
  <2>2. ASSUME NEW n \in list_pub_wait_ack, ProcRepublish(n)
        PROVE  Retimes(n)
    <3>1. Publish(n.msg_id, n.msg) \in Packet
      BY ClientAssumption, PacketType DEF ClientAssumption, TypeInv, TypeOK, Node
    <3>2. Packets(c2s)' \subseteq Packets(c2s) \cup {Publish(n.msg_id, n.msg)}
      BY <2>2, <3>1, PacketsWritten DEF ProcRepublish, TypeInv, TypeOK
    <3>3. QED
      BY <2>2, <3>2 DEF ProcRepublish, MustRepublish, Restarted, Retimes, Packets
  <2>3. ASSUME NEW n \in list_pub_wait_ack, ProcRepublishFails(n)
        PROVE  Retimes(n)
    BY <2>3 DEF ProcRepublishFails, WriteFails, MustRepublish, Restarted, Retimes, Packets
  <2>4. QED
    BY <1>3, <2>1, <2>2, <2>3 DEF CycleStep
<1>4. CASE NetworkStep
  <2>1. ASSUME NEW s, NetworkFails(s) PROVE Quiet
    BY <2>1 DEF NetworkFails, Socket, Quiet, Packets
  <2>2. QED
    BY <1>4, <2>1, BrokerCases DEF NetworkStep
<1>5. CASE ClockStep
  <2>1. CASE PingTimer \/ ReconnectTimer
    BY <2>1 DEF PingTimer, ReconnectTimer, Quiet, Packets
  <2>2. ASSUME NEW m \in Qos1Msgs, NodeTimeout(m)
        PROVE  \E n \in list_pub_wait_ack : Retimes(n)
    BY <2>2 DEF NodeTimeout, Retimes, Packets
  <2>3. QED
    BY <1>5, <2>1, <2>2 DEF ClockStep
<1>6. CASE UNCHANGED vars
  BY <1>6 DEF vars, Quiet, Packets
<1>7. QED
  BY <1>1, <1>2, <1>3, <1>4, <1>5, <1>6 DEF Next
-----------------------------------------------------------------------------
(* A refused message is never delivered: what is on its way to the broker, *)
(* waits for a PUBACK or has arrived was accepted, and the calls that are  *)
(* still undecided are all different.                                      *)
RefusalInv ==
  /\ accepted \cap refused = {}
  /\ received \subseteq accepted
  /\ \A n \in list_pub_wait_ack : n.msg \in accepted
  /\ \A p \in Packets(c2s) : p.type = "PUBLISH" => p.msg \in accepted
  /\ \A t \in Publishers : pub[t].pc = "send" => pub[t].msg \notin accepted \cup refused
  /\ \A t, u \in Publishers :
       pub[t].pc = "send" /\ pub[u].pc = "send" /\ t # u => pub[t].msg # pub[u].msg

\* What reading a packet does to the list: it keeps every node but those its PUBACK
\* names, and turns these INVALID.
LEMMA MaskedNodes ==
  ASSUME TypeInv, CycleReadPacket
  PROVE  /\ Packets(c2s)' = Packets(c2s)
         /\ Packets(s2c)' \subseteq Packets(s2c)
         /\ UNCHANGED <<pub, packet_id, accepted, refused, received, issued, reused>>
         /\ \A n \in list_pub_wait_ack' :
              \/ n \in list_pub_wait_ack
              \/ /\ n.node_state = "INVALID"
                 /\ \E o \in list_pub_wait_ack : o.msg_id = n.msg_id /\ o.msg = n.msg
                 /\ \E p \in Packets(s2c) : p.type = "PUBACK" /\ p.id = n.msg_id
         /\ \A n \in list_pub_wait_ack :
              \/ n \in list_pub_wait_ack'
              \/ \E p \in Packets(s2c) : p.type = "PUBACK" /\ p.id = n.msg_id
<1> USE DEF clientVars, timerVars, netVars, histVars
<1>1. s2c \in Seq(Packet) /\ s2c # << >> /\ s2c' = Tail(s2c) /\ list_pub_wait_ack \subseteq Node
  BY DEF CycleReadPacket, TypeInv, TypeOK
<1>2. Head(s2c) \in Packets(s2c) /\ Packets(s2c)' \subseteq Packets(s2c)
  BY <1>1, PacketsTail DEF Packets
<1>3. CASE list_pub_wait_ack' = list_pub_wait_ack
  BY <1>2, <1>3 DEF CycleReadPacket, Packets
<1>4. CASE Head(s2c).type = "PUBACK" /\ list_pub_wait_ack' = Masked(Head(s2c).id)
  <2>1. ASSUME NEW n \in list_pub_wait_ack
        PROVE  LET o == [n EXCEPT !.node_state = "INVALID"]
               IN  o.node_state = "INVALID" /\ o.msg_id = n.msg_id /\ o.msg = n.msg
    BY <1>1 DEF Node
  <2>2. ASSUME NEW n \in list_pub_wait_ack'
        PROVE  \/ n \in list_pub_wait_ack
               \/ \E o \in list_pub_wait_ack :
                    o.msg_id = Head(s2c).id /\ n = [o EXCEPT !.node_state = "INVALID"]
    BY <1>4 DEF Masked
  <2>3. ASSUME NEW n \in list_pub_wait_ack, n.msg_id # Head(s2c).id
        PROVE  n \in list_pub_wait_ack'
    BY <1>4, <2>3 DEF Masked
  <2>4. \A n \in list_pub_wait_ack :
          \/ n \in list_pub_wait_ack'
          \/ \E p \in Packets(s2c) : p.type = "PUBACK" /\ p.id = n.msg_id
    BY <1>2, <1>4, <2>3
  <2>5. \A n \in list_pub_wait_ack' :
          \/ n \in list_pub_wait_ack
          \/ /\ n.node_state = "INVALID"
             /\ \E o \in list_pub_wait_ack : o.msg_id = n.msg_id /\ o.msg = n.msg
             /\ \E p \in Packets(s2c) : p.type = "PUBACK" /\ p.id = n.msg_id
    <3> SUFFICES ASSUME NEW n \in list_pub_wait_ack', n \notin list_pub_wait_ack
                 PROVE  /\ n.node_state = "INVALID"
                        /\ \E o \in list_pub_wait_ack : o.msg_id = n.msg_id /\ o.msg = n.msg
                        /\ n.msg_id = Head(s2c).id
      BY <1>2, <1>4
    <3>1. PICK o \in list_pub_wait_ack :
            o.msg_id = Head(s2c).id /\ n = [o EXCEPT !.node_state = "INVALID"]
      BY <2>2
    <3>2. QED
      BY <2>1, <3>1
  <2>6. QED
    BY <1>2, <2>4, <2>5 DEF CycleReadPacket, Packets
<1>5. QED
  BY <1>3, <1>4 DEF CycleReadPacket

\* A list with one timer changed holds the same publishes.
LEMMA RetimedNodes ==
  ASSUME TypeInv, NEW n \in list_pub_wait_ack, Retimes(n)
  PROVE  /\ \A o \in list_pub_wait_ack : \E q \in list_pub_wait_ack' :
              q.msg_id = o.msg_id /\ q.msg = o.msg /\ q.node_state = o.node_state
         /\ \A q \in list_pub_wait_ack' : \E o \in list_pub_wait_ack :
              q.msg_id = o.msg_id /\ q.msg = o.msg /\ q.node_state = o.node_state
<1>1. PICK timer \in {"running", "expired"} :
        list_pub_wait_ack' = (list_pub_wait_ack \ {n}) \cup {[n EXCEPT !.timer = timer]}
  BY DEF Retimes
<1> DEFINE r == [n EXCEPT !.timer = timer]
<1>2. r.msg_id = n.msg_id /\ r.msg = n.msg /\ r.node_state = n.node_state
  BY DEF TypeInv, TypeOK, Node
<1>3. r \in list_pub_wait_ack' /\ \A q \in list_pub_wait_ack' : q = r \/ q \in list_pub_wait_ack
  BY <1>1
<1>4. \A o \in list_pub_wait_ack : o = n \/ o \in list_pub_wait_ack'
  BY <1>1
<1> HIDE DEF r
<1>5. QED
  BY <1>2, <1>3, <1>4

LEMMA RefusalStep == TypeInv /\ RefusalInv /\ [Next]_vars => RefusalInv'
<1> SUFFICES ASSUME TypeInv, RefusalInv, [Next]_vars PROVE RefusalInv'
  OBVIOUS
<1> USE DEF RefusalInv, clientVars, timerVars, netVars, histVars
<1>1. CASE Quiet
  <2>1. \A p \in Packets(c2s)' : p.type = "PUBLISH" => p \in Packets(c2s)
    BY <1>1 DEF Quiet
  <2>2. QED
    BY <1>1, <2>1 DEF Quiet
<1>2. ASSUME NEW t \in Publishers, NEW m \in Msgs, PublishBegin(t, m) PROVE RefusalInv'
  <2>1. \E id : pub' = [pub EXCEPT ![t] = [pc |-> "send", msg |-> m, id |-> id]]
    BY <1>2 DEF PublishBegin
  <2>2. /\ pub'[t].pc = "send" /\ pub'[t].msg = m
        /\ \A u \in Publishers \ {t} : pub'[u] = pub[u]
    BY <2>1 DEF TypeInv, TypeOK
  <2>3. m \notin accepted \cup refused /\ \A u \in Publishers : pub[u].msg # m
    BY <1>2 DEF PublishBegin, Started
  <2>4. UNCHANGED <<accepted, refused, received, list_pub_wait_ack>> /\ Packets(c2s)' = Packets(c2s)
    BY <1>2 DEF PublishBegin, Packets
  <2>5. QED
    BY <2>2, <2>3, <2>4
<1>3. ASSUME NEW t \in Publishers, PublishListFull(t) \/ PublishFailed(t) \/ PublishSetState(t)
      PROVE  RefusalInv'
  <2>1. /\ pub'[t].pc # "send" /\ \A u \in Publishers \ {t} : pub'[u] = pub[u]
    BY <1>3 DEF PublishListFull, PublishFailed, PublishSetState, Idle, TypeInv, TypeOK, PublisherState
  <2>2. \/ refused' = refused
        \/ pub[t].pc = "send" /\ refused' = refused \cup {pub[t].msg}
    BY <1>3 DEF PublishListFull, PublishFailed, PublishSetState, Sending
  <2>3. UNCHANGED <<accepted, received, list_pub_wait_ack>> /\ Packets(c2s)' = Packets(c2s)
    BY <1>3 DEF PublishListFull, PublishFailed, PublishSetState, WriteFails, Packets
  <2>4. QED
    BY <2>1, <2>2, <2>3
<1>4. ASSUME NEW t \in Publishers, PublishSent(t) PROVE RefusalInv'
  <2>1. /\ pub'[t].pc # "send" /\ \A u \in Publishers \ {t} : pub'[u] = pub[u]
    BY <1>4 DEF PublishSent, Idle, TypeInv, TypeOK
  <2>2. /\ pub[t].pc = "send" /\ accepted' = accepted \cup {pub[t].msg}
        /\ UNCHANGED <<refused, received>>
    BY <1>4 DEF PublishSent, Sending
  <2>3. \A n \in list_pub_wait_ack' : n \in list_pub_wait_ack \/ n.msg = pub[t].msg
    BY <1>4 DEF PublishSent, NewNode
  <2>4. Publish(pub[t].id, pub[t].msg) \in Packet /\ Publish(pub[t].id, pub[t].msg).msg = pub[t].msg
    BY <2>2, PacketType DEF TypeInv, TypeOK, SenderOK, PublisherState
  <2>5. \A p \in Packets(c2s)' : p \in Packets(c2s) \/ p.msg = pub[t].msg
    BY <1>4, <2>4, PacketsWritten DEF PublishSent, TypeInv, TypeOK
  <2>6. QED
    BY <2>1, <2>2, <2>3, <2>5
<1>5. CASE CycleReadPacket
  <2>1. \A n \in list_pub_wait_ack' : \E o \in list_pub_wait_ack : o.msg = n.msg
    BY <1>5, MaskedNodes
  <2>2. QED
    BY <1>5, <2>1, MaskedNodes
<1>6. ASSUME NEW n \in list_pub_wait_ack, ProcRemove(n) PROVE RefusalInv'
  BY <1>6 DEF ProcRemove, Packets
<1>7. ASSUME NEW n \in list_pub_wait_ack, Retimes(n) PROVE RefusalInv'
  <2>1. \A q \in list_pub_wait_ack' : q.msg \in accepted
    BY <1>7, RetimedNodes
  <2>2. \A p \in Packets(c2s)' : p \in Packets(c2s) \/ p.msg = n.msg
    BY <1>7 DEF Retimes, Publish
  <2>3. QED
    BY <1>7, <2>1, <2>2 DEF Retimes
<1>8. ASSUME NEW p \in Packet, Delivers(p) PROVE RefusalInv'
  BY <1>8 DEF Delivers
<1>9. QED
  BY <1>1, <1>2, <1>3, <1>4, <1>5, <1>6, <1>7, <1>8, StepCases

\* A publish that returned an error never reaches the broker and is never republished.
THEOREM RefusedStaysAway == Spec => []RefusedIsNeverDelivered
<1>1. Init => RefusalInv
  BY PacketsEmpty DEF Init, RefusalInv, Idle
<1>2. RefusalInv => RefusedIsNeverDelivered
  BY DEF RefusalInv, RefusedIsNeverDelivered
<1>3. QED
  BY InitType, TypeStep, RefusalStep, <1>1, <1>2, PTL DEF Spec

-----------------------------------------------------------------------------
(* Identifiers.  Until the counter has wrapped, it has handed out exactly  *)
(* the identifiers up to packet_id, so the next one is new.                *)
IdsBounded ==
  /\ \A n \in list_pub_wait_ack : n.msg_id <= packet_id
  /\ \A t \in Publishers : pub[t].pc = "send" => pub[t].id <= packet_id
  /\ \A p \in Packets(c2s) \cup Packets(s2c) : p.id <= packet_id
IdInv ==
  issued <= IOTX_MC_PACKET_ID_MAX => packet_id = issued /\ ~reused /\ IdsBounded

\* A step that hands out no identifier spreads none: each one in use was in use.
LEMMA IdsSpread ==
  ASSUME TypeInv, [Next]_vars,
         ~\E t \in Publishers, m \in Msgs : PublishBegin(t, m)
  PROVE  (IdsBounded => IdsBounded') /\ UNCHANGED <<packet_id, issued, reused>>
<1> USE DEF IdsBounded, clientVars, timerVars, netVars, histVars
<1>1. packet_id \in Nat
  BY ClientAssumption DEF ClientAssumption, TypeInv, TypeOK
<1>2. CASE Quiet
  BY <1>1, <1>2 DEF Quiet
<1>3. ASSUME NEW t \in Publishers, PublishListFull(t) \/ PublishFailed(t) \/ PublishSetState(t)
      PROVE  (IdsBounded => IdsBounded') /\ UNCHANGED <<packet_id, issued, reused>>
  <2>1. /\ pub'[t].pc # "send" /\ \A u \in Publishers \ {t} : pub'[u] = pub[u]
    BY <1>3 DEF PublishListFull, PublishFailed, PublishSetState, Idle, TypeInv, TypeOK, PublisherState
  <2>2. /\ UNCHANGED <<list_pub_wait_ack, packet_id, issued, reused>>
        /\ Packets(c2s)' = Packets(c2s) /\ Packets(s2c)' = Packets(s2c)
    BY <1>3 DEF PublishListFull, PublishFailed, PublishSetState, WriteFails, Packets
  <2>3. QED
    BY <2>1, <2>2
<1>4. ASSUME NEW t \in Publishers, PublishSent(t)
      PROVE  (IdsBounded => IdsBounded') /\ UNCHANGED <<packet_id, issued, reused>>
  <2>1. /\ pub'[t].pc # "send" /\ \A u \in Publishers \ {t} : pub'[u] = pub[u]
    BY <1>4 DEF PublishSent, Idle, TypeInv, TypeOK
  <2>2. /\ UNCHANGED <<packet_id, issued, reused>> /\ Packets(s2c)' = Packets(s2c)
    BY <1>4 DEF PublishSent, Packets
  <2>3. pub[t].pc = "send" /\ \A n \in list_pub_wait_ack' : n \in list_pub_wait_ack \/ n.msg_id = pub[t].id
    BY <1>4 DEF PublishSent, Sending, NewNode
  <2>4. Publish(pub[t].id, pub[t].msg) \in Packet /\ Publish(pub[t].id, pub[t].msg).id = pub[t].id
    BY <2>3, PacketType DEF TypeInv, TypeOK, SenderOK, PublisherState, Publish
  <2>5. \A p \in Packets(c2s)' : p \in Packets(c2s) \/ p.id = pub[t].id
    BY <1>4, <2>4, PacketsWritten DEF PublishSent, TypeInv, TypeOK
  <2>6. QED
    BY <2>1, <2>2, <2>3, <2>5
<1>5. CASE CycleReadPacket
  <2>1. \A n \in list_pub_wait_ack' : \E o \in list_pub_wait_ack : o.msg_id = n.msg_id
    BY <1>5, MaskedNodes
  <2>2. QED
    BY <1>5, <2>1, MaskedNodes
<1>6. ASSUME NEW n \in list_pub_wait_ack, ProcRemove(n)
      PROVE  (IdsBounded => IdsBounded') /\ UNCHANGED <<packet_id, issued, reused>>
  BY <1>6 DEF ProcRemove, Packets
<1>7. ASSUME NEW n \in list_pub_wait_ack, Retimes(n)
      PROVE  (IdsBounded => IdsBounded') /\ UNCHANGED <<packet_id, issued, reused>>
  <2>1. \A q \in list_pub_wait_ack' : \E o \in list_pub_wait_ack : q.msg_id = o.msg_id
    BY <1>7, RetimedNodes
  <2>2. \A p \in Packets(c2s)' : p \in Packets(c2s) \/ p.id = n.msg_id
    BY <1>7 DEF Retimes, Publish
  <2>3. QED
    BY <1>7, <2>1, <2>2 DEF Retimes
<1>8. ASSUME NEW p \in Packet, Delivers(p)
      PROVE  (IdsBounded => IdsBounded') /\ UNCHANGED <<packet_id, issued, reused>>
  <2>1. \A q \in Packets(s2c)' : q \in Packets(s2c) \/ q.id = p.id
    BY <1>8 DEF Delivers, Puback
  <2>2. QED
    BY <1>8, <2>1 DEF Delivers
<1>9. QED
  BY <1>2, <1>3, <1>4, <1>5, <1>6, <1>7, <1>8, StepCases

LEMMA IdsAreNat ==
  ASSUME TypeInv
  PROVE  /\ \A n \in list_pub_wait_ack : n.msg_id \in Nat
         /\ \A t \in Publishers : pub[t].id \in Nat
         /\ \A p \in Packets(c2s) \cup Packets(s2c) : p.id \in Nat
<1>1. 0..IOTX_MC_PACKET_ID_MAX \subseteq Nat
  BY ClientAssumption DEF ClientAssumption
<1>2. \A n \in list_pub_wait_ack : n.msg_id \in Nat
  BY <1>1 DEF TypeInv, TypeOK, Node
<1>3. \A t \in Publishers : pub[t].id \in Nat
  BY <1>1 DEF TypeInv, TypeOK, PublisherState
<1>4. Packets(c2s) \subseteq Packet /\ Packets(s2c) \subseteq Packet
  BY DEF TypeInv, TypeOK, Packets
<1>5. \A p \in Packets(c2s) \cup Packets(s2c) : p.id \in Nat
  BY <1>1, <1>4 DEF Packet
<1>6. QED
  BY <1>2, <1>3, <1>5

LEMMA IdStep == TypeInv /\ IdInv /\ [Next]_vars => IdInv'
<1> SUFFICES ASSUME TypeInv, IdInv, [Next]_vars, issued' <= IOTX_MC_PACKET_ID_MAX
             PROVE  packet_id' = issued' /\ ~reused' /\ IdsBounded'
  BY DEF IdInv
<1>1. issued \in Nat /\ packet_id \in Nat /\ IOTX_MC_PACKET_ID_MAX \in Nat
  BY ClientAssumption DEF ClientAssumption, TypeInv, TypeOK
<1>2. ASSUME NEW t \in Publishers, NEW m \in Msgs, PublishBegin(t, m)
      PROVE  packet_id' = issued' /\ ~reused' /\ IdsBounded'
  <2>1. /\ \A u \in Publishers \ {t} : pub'[u] = pub[u]
        /\ pub'[t].id \in {0, packet_id'}
    BY <1>2 DEF PublishBegin, TypeInv, TypeOK
  <2>2. /\ list_pub_wait_ack' = list_pub_wait_ack
        /\ Packets(c2s)' = Packets(c2s) /\ Packets(s2c)' = Packets(s2c)
    BY <1>2 DEF PublishBegin, netVars, Packets
  <2>3. CASE m \notin Qos1Msgs
    <3>1. UNCHANGED <<packet_id, issued, reused>>
      BY <1>2, <2>3 DEF PublishBegin
    <3>2. IdsBounded /\ packet_id = issued /\ ~reused
      BY <3>1 DEF IdInv
    <3>3. IdsBounded'
      BY <1>1, <2>1, <2>2, <3>1, <3>2 DEF IdsBounded
    <3>4. QED
      BY <3>1, <3>2, <3>3
  <2>4. CASE m \in Qos1Msgs
    <3>1. packet_id' = NextPacketId /\ issued' = issued + 1
      BY <1>2, <2>4 DEF PublishBegin
    <3>2. reused' = (reused \/ InUse(NextPacketId))
      BY <1>2, <2>4 DEF PublishBegin
    <3>3. IdsBounded /\ packet_id = issued /\ ~reused
      BY <1>1, <3>1 DEF IdInv
    <3>4. NextPacketId = packet_id + 1
      BY <1>1, <3>1, <3>3 DEF NextPacketId
    <3>5. /\ \A n \in list_pub_wait_ack : n.msg_id \in Nat
          /\ \A u \in Publishers : pub[u].id \in Nat
          /\ \A p \in Packets(c2s) \cup Packets(s2c) : p.id \in Nat
      BY IdsAreNat
    <3>6. ~InUse(NextPacketId)
      BY <1>1, <3>3, <3>4, <3>5 DEF IdsBounded, InUse
    <3>7. IdsBounded'
      BY <1>1, <2>1, <2>2, <3>1, <3>3, <3>4, <3>5 DEF IdsBounded
    <3>8. ~reused'
      BY <3>2, <3>3, <3>6, Zenon
    <3>9. QED
      BY <3>1, <3>3, <3>4, <3>7, <3>8
  <2>5. QED
    BY <2>3, <2>4
<1>3. CASE ~\E t \in Publishers, m \in Msgs : PublishBegin(t, m)
  <2>1. issued' = issued
    BY <1>3, IdsSpread
  <2>2. packet_id = issued /\ ~reused /\ IdsBounded
    BY <2>1 DEF IdInv
  <2>3. QED
    BY <1>3, <2>2, IdsSpread
<1>4. QED
  BY <1>2, <1>3

\* An identifier is handed out while in use only once all of them have been handed out.
THEOREM ReuseNeedsAWrap == Spec => []ReuseTakesAWrap
<1>1. Init => IdInv
  BY PacketsEmpty DEF Init, IdInv, IdsBounded, Idle
<1>2. TypeInv /\ IdInv => ReuseTakesAWrap
  BY ClientAssumption DEF ClientAssumption, TypeInv, TypeOK, IdInv, ReuseTakesAWrap
<1>3. QED
  BY InitType, TypeStep, IdStep, <1>1, <1>2, PTL DEF Spec

-----------------------------------------------------------------------------
(* No accepted message is lost.  While identifiers are not reused, what    *)
(* carries the identifier of a node carries its message as well, so that   *)
(* every PUBACK the client can read acknowledges a message that arrived.   *)

\* A publish about to be sent has its identifier to itself.
IdsExclusive ==
  \A t \in Publishers : pub[t].pc = "send" /\ pub[t].id # 0 =>
    /\ \A n \in list_pub_wait_ack : n.msg_id # pub[t].id
    /\ \A p \in Packets(c2s) \cup Packets(s2c) : p.id # pub[t].id
    /\ \A u \in Publishers \ {t} : pub[u].pc = "send" => pub[u].id # pub[t].id
\* Equal identifiers name the same message.
IdsAgree ==
  \A n \in list_pub_wait_ack :
    /\ \A o \in list_pub_wait_ack : o.msg_id = n.msg_id => o.msg = n.msg
    /\ \A p \in Packets(c2s) : p.type = "PUBLISH" /\ p.id = n.msg_id => p.msg = n.msg
\* What was acknowledged, or is about to be, has arrived.
AckedArrived ==
  \A n \in list_pub_wait_ack :
    /\ n.node_state = "INVALID" => n.msg \in received
    /\ \A p \in Packets(s2c) : p.type = "PUBACK" /\ p.id = n.msg_id => n.msg \in received
Kept ==
  \A m \in Promised \ received :
    \E n \in list_pub_wait_ack : n.msg = m /\ n.node_state = "NORMAL"
DeliveryInv == ~reused => IdsExclusive /\ IdsAgree /\ AckedArrived /\ Kept

LEMMA DeliveryBegin ==
  ASSUME TypeInv, DeliveryInv, NEW t \in Publishers, NEW m \in Msgs, PublishBegin(t, m)
  PROVE  DeliveryInv'
<1> SUFFICES ASSUME ~reused'
             PROVE  IdsExclusive' /\ IdsAgree' /\ AckedArrived' /\ Kept'
  BY DEF DeliveryInv
<1>1. /\ \A u \in Publishers \ {t} : pub'[u] = pub[u]
      /\ m \notin Qos1Msgs => pub'[t].id = 0
      /\ m \in Qos1Msgs => pub'[t].id = NextPacketId
  BY DEF PublishBegin, TypeInv, TypeOK
<1>2. /\ UNCHANGED <<list_pub_wait_ack, accepted, received>>
      /\ Packets(c2s)' = Packets(c2s) /\ Packets(s2c)' = Packets(s2c)
  BY DEF PublishBegin, netVars, Packets
<1>3. m \in Qos1Msgs => reused' = (reused \/ InUse(NextPacketId))
  BY DEF PublishBegin
<1>4. m \notin Qos1Msgs => reused' = reused
  BY DEF PublishBegin
<1>5. ~reused /\ (m \in Qos1Msgs => ~InUse(NextPacketId))
  <2>1. ASSUME NEW b, reused' = b PROVE ~b
    BY <2>1, Zenon
  <2>2. CASE m \in Qos1Msgs
    <3>1. ~(reused \/ InUse(NextPacketId))
      BY <1>3, <2>1, <2>2, Zenon
    <3>2. QED
      BY <3>1
  <2>3. CASE m \notin Qos1Msgs
    <3>1. ~reused
      BY <1>4, <2>1, <2>3, Zenon
    <3>2. QED
      BY <2>3, <3>1
  <2>4. QED
    BY <2>2, <2>3
<1>6. IdsExclusive /\ IdsAgree /\ AckedArrived /\ Kept
  BY <1>5 DEF DeliveryInv
<1>7. IdsExclusive'
  BY <1>1, <1>2, <1>5, <1>6 DEF IdsExclusive, InUse
<1>8. QED
  BY <1>2, <1>6, <1>7 DEF IdsAgree, AckedArrived, Kept, Promised

LEMMA DeliverySent ==
  ASSUME TypeInv, DeliveryInv, NEW t \in Publishers, PublishSent(t)
  PROVE  DeliveryInv'
<1> SUFFICES ASSUME ~reused
             PROVE  IdsExclusive' /\ IdsAgree' /\ AckedArrived' /\ Kept'
  BY DEF DeliveryInv, PublishSent
<1> DEFINE id == pub[t].id
           m == pub[t].msg
<1>1. IdsExclusive /\ IdsAgree /\ AckedArrived /\ Kept
  BY DEF DeliveryInv
<1>2. /\ pub[t].pc = "send" /\ pub'[t].pc # "send" /\ \A u \in Publishers \ {t} : pub'[u] = pub[u]
      /\ accepted' = accepted \cup {m} /\ received' = received
      /\ Packets(s2c)' = Packets(s2c)
  BY DEF PublishSent, Sending, Idle, TypeInv, TypeOK, Packets
<1>3. m \in Msgs /\ (m \in Qos1Msgs => id # 0) /\ id \in 0..IOTX_MC_PACKET_ID_MAX
  BY <1>2 DEF TypeInv, TypeOK, PublisherState, SenderOK
<1>4. /\ Publish(id, m) \in Packet
      /\ Publish(id, m).id = id /\ Publish(id, m).msg = m
  BY <1>3, PacketType DEF TypeInv, TypeOK, PublisherState, Publish
<1>5. \A p \in Packets(c2s)' : p \in Packets(c2s) \/ (p.id = id /\ p.msg = m)
  BY <1>4, PacketsWritten DEF PublishSent, TypeInv, TypeOK
<1>6. \A n \in list_pub_wait_ack : n.msg_id # 0
  BY ClientAssumption DEF ClientAssumption, TypeInv, TypeOK, Node
<1>7. CASE m \notin Qos1Msgs
  <2>1. list_pub_wait_ack' = list_pub_wait_ack /\ Promised' = Promised
    BY <1>2, <1>7 DEF PublishSent, Promised
  <2>2. \A n \in list_pub_wait_ack : n.msg_id # id
    BY <1>1, <1>2, <1>6 DEF IdsExclusive
  <2>3. IdsExclusive'
    BY <1>1, <1>2, <1>5, <2>1 DEF IdsExclusive
  <2>4. IdsAgree' /\ AckedArrived'
    BY <1>1, <1>2, <1>5, <2>1, <2>2 DEF IdsAgree, AckedArrived
  <2>5. Kept'
    BY <1>1, <1>2, <2>1 DEF Kept
  <2>6. QED
    BY <2>3, <2>4, <2>5
<1>8. CASE m \in Qos1Msgs
  <2> DEFINE n == NewNode(t)
  <2>1. /\ list_pub_wait_ack' = list_pub_wait_ack \cup {n}
        /\ n.msg_id = id /\ n.msg = m /\ n.node_state = "NORMAL"
    BY <1>8 DEF PublishSent, NewNode
  <2>2. /\ \A o \in list_pub_wait_ack : o.msg_id # id
        /\ \A p \in Packets(c2s) \cup Packets(s2c) : p.id # id
        /\ \A u \in Publishers \ {t} : pub[u].pc = "send" => pub[u].id # id
    BY <1>1, <1>2, <1>3, <1>8 DEF IdsExclusive
  <2> HIDE DEF n
  <2>3. IdsExclusive'
    BY <1>1, <1>2, <1>5, <2>1, <2>2 DEF IdsExclusive
  <2>4. IdsAgree'
    BY <1>1, <1>5, <2>1, <2>2 DEF IdsAgree
  <2>5. AckedArrived'
    BY <1>1, <1>2, <2>1, <2>2 DEF AckedArrived
  <2>6. Kept'
    BY <1>1, <1>2, <2>1 DEF Kept, Promised
  <2>7. QED
    BY <2>3, <2>4, <2>5, <2>6
<1>9. QED
  BY <1>7, <1>8

\* A PUBACK turns INVALID only nodes whose message has arrived.
LEMMA DeliveryRead ==
  ASSUME TypeInv, DeliveryInv, CycleReadPacket
  PROVE  DeliveryInv'
<1> SUFFICES ASSUME ~reused
             PROVE  IdsExclusive' /\ IdsAgree' /\ AckedArrived' /\ Kept'
  BY MaskedNodes DEF DeliveryInv
<1>1. IdsExclusive /\ IdsAgree /\ AckedArrived /\ Kept
  BY DEF DeliveryInv
<1>2. \A n \in list_pub_wait_ack' : \E o \in list_pub_wait_ack :
        o.msg_id = n.msg_id /\ o.msg = n.msg
  BY MaskedNodes
<1>3. /\ Packets(c2s)' = Packets(c2s) /\ Packets(s2c)' \subseteq Packets(s2c)
      /\ UNCHANGED <<pub, received, accepted>>
  BY MaskedNodes
<1>4. IdsExclusive'
  BY <1>1, <1>2, <1>3 DEF IdsExclusive
<1>5. IdsAgree'
  BY <1>1, <1>2, <1>3 DEF IdsAgree
<1>6. ASSUME NEW n \in list_pub_wait_ack', n.node_state = "INVALID"
      PROVE  n.msg \in received
  BY <1>1, <1>6, MaskedNodes DEF AckedArrived
<1>7. AckedArrived'
  BY <1>1, <1>2, <1>3, <1>6 DEF AckedArrived
<1>8. Kept'
  <2> SUFFICES ASSUME NEW m \in Promised \ received
               PROVE  \E n \in list_pub_wait_ack' : n.msg = m /\ n.node_state = "NORMAL"
    BY <1>3 DEF Kept, Promised
  <2>1. PICK n \in list_pub_wait_ack : n.msg = m /\ n.node_state = "NORMAL"
    BY <1>1 DEF Kept
  <2>2. n \in list_pub_wait_ack'
    BY <1>1, <2>1, MaskedNodes DEF AckedArrived
  <2>3. QED
    BY <2>1, <2>2
<1>9. QED
  BY <1>4, <1>5, <1>7, <1>8

LEMMA DeliveryStep == TypeInv /\ DeliveryInv /\ [Next]_vars => DeliveryInv'
<1> SUFFICES ASSUME TypeInv, DeliveryInv, [Next]_vars PROVE DeliveryInv'
  OBVIOUS
<1> DEFINE Clean == IdsExclusive /\ IdsAgree /\ AckedArrived /\ Kept
<1> USE DEF clientVars, timerVars, netVars, histVars
<1>1. (reused' = reused /\ (Clean => Clean')) => DeliveryInv'
  BY DEF DeliveryInv
<1>2. CASE Quiet
  <2>1. \A p \in Packets(c2s)' : p \in Packets(c2s) \/ (p.id = 0 /\ p.type # "PUBLISH")
    BY <1>2 DEF Quiet
  <2>2. \A p \in Packets(s2c)' : p \in Packets(s2c) \/ (p.id = 0 /\ p.type # "PUBACK")
    BY <1>2 DEF Quiet
  <2>3. UNCHANGED <<list_pub_wait_ack, pub, accepted, received, reused>>
    BY <1>2 DEF Quiet
  <2>4. IdsExclusive => IdsExclusive'
    BY <2>1, <2>2, <2>3 DEF IdsExclusive
  <2>5. (IdsAgree => IdsAgree') /\ (AckedArrived => AckedArrived') /\ (Kept => Kept')
    BY <2>1, <2>2, <2>3 DEF IdsAgree, AckedArrived, Kept, Promised
  <2>6. QED
    BY <1>1, <2>3, <2>4, <2>5
<1>3. ASSUME NEW t \in Publishers, PublishListFull(t) \/ PublishFailed(t) \/ PublishSetState(t)
      PROVE  DeliveryInv'
  <2>1. /\ pub'[t].pc # "send" /\ \A u \in Publishers \ {t} : pub'[u] = pub[u]
    BY <1>3 DEF PublishListFull, PublishFailed, PublishSetState, Idle, TypeInv, TypeOK, PublisherState
  <2>2. /\ UNCHANGED <<list_pub_wait_ack, accepted, received, reused>>
        /\ Packets(c2s)' = Packets(c2s) /\ Packets(s2c)' = Packets(s2c)
    BY <1>3 DEF PublishListFull, PublishFailed, PublishSetState, WriteFails, Packets
  <2>3. IdsExclusive => IdsExclusive'
    BY <2>1, <2>2 DEF IdsExclusive
  <2>4. (IdsAgree => IdsAgree') /\ (AckedArrived => AckedArrived') /\ (Kept => Kept')
    BY <2>2 DEF IdsAgree, AckedArrived, Kept, Promised
  <2>5. QED
    BY <1>1, <2>2, <2>3, <2>4
<1>4. ASSUME NEW n \in list_pub_wait_ack, ProcRemove(n) PROVE DeliveryInv'
  <2>1. /\ list_pub_wait_ack' = list_pub_wait_ack \ {n} /\ n.node_state = "INVALID"
        /\ UNCHANGED <<pub, accepted, received, reused>>
        /\ Packets(c2s)' = Packets(c2s) /\ Packets(s2c)' = Packets(s2c)
    BY <1>4 DEF ProcRemove, Packets
  <2>2. (IdsExclusive => IdsExclusive') /\ (IdsAgree => IdsAgree') /\ (AckedArrived => AckedArrived')
    BY <2>1 DEF IdsExclusive, IdsAgree, AckedArrived
  <2>3. Kept => Kept'
    BY <2>1 DEF Kept, Promised
  <2>4. QED
    BY <1>1, <2>1, <2>2, <2>3
<1>5. ASSUME NEW n \in list_pub_wait_ack, Retimes(n) PROVE DeliveryInv'
  <2>1. /\ UNCHANGED <<pub, accepted, received, reused>>
        /\ Packets(s2c)' = Packets(s2c)
        /\ \A p \in Packets(c2s)' : p \in Packets(c2s) \/ (p.id = n.msg_id /\ p.msg = n.msg)
    BY <1>5 DEF Retimes, Publish
  <2>2. \A q \in list_pub_wait_ack' : \E o \in list_pub_wait_ack :
          q.msg_id = o.msg_id /\ q.msg = o.msg /\ q.node_state = o.node_state
    BY <1>5, RetimedNodes
  <2>3. \A o \in list_pub_wait_ack : \E q \in list_pub_wait_ack' :
          q.msg_id = o.msg_id /\ q.msg = o.msg /\ q.node_state = o.node_state
    BY <1>5, RetimedNodes
  <2>4. IdsExclusive => IdsExclusive'
    BY <2>1, <2>2 DEF IdsExclusive
  <2>5. IdsAgree => IdsAgree'
    BY <2>1, <2>2 DEF IdsAgree
  <2>6. AckedArrived => AckedArrived'
    BY <2>1, <2>2 DEF AckedArrived
  <2>7. Kept => Kept'
    BY <2>1, <2>3 DEF Kept, Promised
  <2>8. QED
    BY <1>1, <2>1, <2>4, <2>5, <2>6, <2>7
<1>6. ASSUME NEW p \in Packet, Delivers(p) PROVE DeliveryInv'
  <2>1. /\ UNCHANGED <<list_pub_wait_ack, pub, accepted, reused>>
        /\ p \in Packets(c2s) /\ p.type = "PUBLISH"
        /\ received' = received \cup {p.msg}
        /\ Packets(c2s)' \subseteq Packets(c2s)
        /\ \A q \in Packets(s2c)' : q \in Packets(s2c) \/ q.id = p.id
    BY <1>6 DEF Delivers, Puback
  <2>2. IdsExclusive => IdsExclusive'
    BY <2>1 DEF IdsExclusive
  <2>3. (IdsAgree => IdsAgree') /\ (Kept => Kept')
    BY <2>1 DEF IdsAgree, Kept, Promised
  <2>4. IdsAgree /\ AckedArrived => AckedArrived'
    BY <2>1 DEF IdsAgree, AckedArrived
  <2>5. QED
    BY <1>1, <2>1, <2>2, <2>3, <2>4
<1>7. QED
  BY <1>2, <1>3, <1>4, <1>5, <1>6, DeliveryBegin, DeliverySent, DeliveryRead, StepCases

\* A publish that returned success has reached the broker or is still being republished,
\* whatever the network, the broker and the other threads did in between.
THEOREM AcceptedIsKept == Spec => []NoAcceptedMessageLost
<1>1. Init => DeliveryInv
  BY PacketsEmpty DEF Init, DeliveryInv, IdsExclusive, IdsAgree, AckedArrived, Kept, Promised, Idle
<1>2. DeliveryInv => NoAcceptedMessageLost
  BY DEF DeliveryInv, Kept, NoAcceptedMessageLost
<1>3. QED
  BY InitType, TypeStep, DeliveryStep, <1>1, <1>2, PTL DEF Spec

-----------------------------------------------------------------------------
(* The limit of the list.                                                  *)
PendingInv == IsFiniteSet(list_pub_wait_ack) /\ PendingWithinLimit

\* Acknowledging and restarting replace nodes one for one, or merge them.
LEMMA MaskedCardinality ==
  ASSUME NEW id, IsFiniteSet(list_pub_wait_ack)
  PROVE  IsFiniteSet(Masked(id)) /\ Cardinality(Masked(id)) <= Cardinality(list_pub_wait_ack)
<1> DEFINE f == [n \in list_pub_wait_ack |->
                   IF n.msg_id = id THEN [n EXCEPT !.node_state = "INVALID"] ELSE n]
<1>1. f \in Surjection(list_pub_wait_ack, Masked(id))
  BY DEF Masked, Surjection
<1>2. QED
  BY <1>1, FS_Surjection

LEMMA ReplacedCardinality ==
  ASSUME NEW S, IsFiniteSet(S), NEW n \in S, NEW r
  PROVE  LET T == (S \ {n}) \cup {r} IN IsFiniteSet(T) /\ Cardinality(T) <= Cardinality(S)
<1>1. IsFiniteSet(S \ {n}) /\ Cardinality(S \ {n}) = Cardinality(S) - 1
  BY FS_RemoveElement
<1>2. Cardinality(S) \in Nat /\ Cardinality(S \ {n}) \in Nat
  BY <1>1, FS_CardinalityType
<1>3. /\ IsFiniteSet((S \ {n}) \cup {r})
      /\ Cardinality((S \ {n}) \cup {r}) \in {Cardinality(S \ {n}), Cardinality(S \ {n}) + 1}
  BY <1>1, FS_AddElement
<1>4. QED
  BY <1>1, <1>2, <1>3

LEMMA PendingStep == TypeInv /\ PendingInv /\ [Next]_vars => PendingInv'
<1> SUFFICES ASSUME TypeInv, PendingInv, [Next]_vars PROVE PendingInv'
  OBVIOUS
<1> USE DEF PendingInv, PendingWithinLimit
<1>1. Cardinality(list_pub_wait_ack) \in Nat /\ IOTX_MC_REPUB_NUM_MAX \in Nat
  BY FS_CardinalityType, ClientAssumption DEF ClientAssumption
<1>2. ASSUME IsFiniteSet(list_pub_wait_ack'),
             Cardinality(list_pub_wait_ack') <= Cardinality(list_pub_wait_ack)
      PROVE  PendingInv'
  <2>1. Cardinality(list_pub_wait_ack') \in Nat
    BY <1>2, FS_CardinalityType
  <2>2. QED
    BY <1>1, <1>2, <2>1
<1>3. CASE UNCHANGED list_pub_wait_ack
  BY <1>3
<1>4. ASSUME NEW t \in Publishers, PublishSent(t) PROVE PendingInv'
  <2>1. CASE pub[t].msg \in Qos1Msgs
    <3>1. /\ list_pub_wait_ack' = list_pub_wait_ack \cup {NewNode(t)}
          /\ Cardinality(list_pub_wait_ack) < IOTX_MC_REPUB_NUM_MAX
      BY <1>1, <1>4, <2>1 DEF PublishSent, ListFull
    <3>2. /\ IsFiniteSet(list_pub_wait_ack')
          /\ Cardinality(list_pub_wait_ack') <= Cardinality(list_pub_wait_ack) + 1
      BY <1>1, <3>1, FS_AddElement
    <3>3. Cardinality(list_pub_wait_ack') \in Nat
      BY <3>2, FS_CardinalityType
    <3>4. QED
      BY <1>1, <3>1, <3>2, <3>3
  <2>2. CASE pub[t].msg \notin Qos1Msgs
    BY <1>3, <1>4, <2>2 DEF PublishSent
  <2>3. QED
    BY <2>1, <2>2
<1>5. ASSUME NEW t \in Publishers,
             \/ \E m \in Msgs : PublishBegin(t, m)
             \/ PublishListFull(t) \/ PublishFailed(t) \/ PublishSetState(t)
      PROVE  PendingInv'
  BY <1>3, <1>5 DEF PublishBegin, PublishListFull, PublishFailed, PublishSetState, clientVars
<1>6. CASE CycleReadPacket
  <2>1. CASE Head(s2c).type = "PUBACK"
    BY <1>2, <1>6, <2>1, MaskedCardinality DEF CycleReadPacket
  <2>2. CASE Head(s2c).type # "PUBACK"
    BY <1>3, <1>6, <2>2 DEF CycleReadPacket
  <2>3. QED
    BY <2>1, <2>2
<1>7. ASSUME NEW n \in list_pub_wait_ack, ProcRemove(n) PROVE PendingInv'
  <2>1. list_pub_wait_ack' = list_pub_wait_ack \ {n}
    BY <1>7 DEF ProcRemove
  <2>2. QED
    BY <1>1, <1>2, <2>1, FS_RemoveElement
<1>8. ASSUME NEW n \in list_pub_wait_ack, Retimes(n) PROVE PendingInv'
  <2>1. PICK timer \in {"running", "expired"} :
          list_pub_wait_ack' = (list_pub_wait_ack \ {n}) \cup {[n EXCEPT !.timer = timer]}
    BY <1>8 DEF Retimes
  <2>2. QED
    BY <1>2, <2>1, ReplacedCardinality
<1>9. CASE Quiet \/ \E p \in Packet : Delivers(p)
  BY <1>3, <1>9 DEF Quiet, Delivers
<1>10. QED
  BY <1>4, <1>5, <1>6, <1>7, <1>8, <1>9, StepCases

\* list_pub_wait_ack never outgrows IOTX_MC_REPUB_NUM_MAX, with any number of threads.
THEOREM PendingIsLimited == Spec => []PendingWithinLimit
<1>1. Init => PendingInv
  BY FS_EmptySet, ClientAssumption DEF ClientAssumption, Init, PendingInv, PendingWithinLimit
<1>2. PendingInv => PendingWithinLimit
  BY DEF PendingInv
<1>3. QED
  BY InitType, TypeStep, PendingStep, <1>1, <1>2, PTL DEF Spec

-----------------------------------------------------------------------------
(* The client implements AtLeastOnce as long as no identifier is handed    *)
(* out while in use.  PublishSent accepts, BrokerReceives delivers,        *)
(* ProcRemove settles; every other step stutters.                          *)

LEMMA AbstractInit == Init => Abstract!Init
BY ClientAssumption DEF ClientAssumption, Init, Abstract!Init, AbsStatus, Held

\* Equal messages held and accepted, equal status.
LEMMA AbstractStutter ==
  ASSUME Held' = Held, accepted' = accepted, received' = received
  PROVE  UNCHANGED Abstract!vars
BY DEF Abstract!vars, AbsStatus

LEMMA AbstractAccept ==
  ASSUME TypeInv, RefusalInv, NEW t \in Publishers, PublishSent(t)
  PROVE  [Abstract!Next]_(Abstract!vars)
<1> DEFINE m == pub[t].msg
<1>1. /\ accepted' = accepted \cup {m} /\ received' = received
      /\ m \notin accepted
  BY DEF PublishSent, Sending, RefusalInv
<1>2. \A h \in Held : h \in accepted
  BY DEF Held, RefusalInv
<1>3. CASE m \notin Qos1Msgs
  <2>1. Held' = Held
    BY <1>3 DEF PublishSent, Held
  <2>2. AbsStatus' = AbsStatus
    BY <1>1, <1>3, <2>1 DEF AbsStatus
  <2>3. QED
    BY <1>1, <2>2 DEF Abstract!vars
<1>4. CASE m \in Qos1Msgs
  <2>1. Held' = Held \cup {m}
    <3> DEFINE n == NewNode(t)
    <3>1. list_pub_wait_ack' = list_pub_wait_ack \cup {n} /\ n.msg = m
      BY <1>4 DEF PublishSent, NewNode
    <3> HIDE DEF n
    <3>2. QED
      BY <3>1 DEF Held
  <2>2. AbsStatus[m] = "new" /\ m \notin Held
    BY <1>1, <1>2, <1>4 DEF AbsStatus
  <2>3. AbsStatus' = [AbsStatus EXCEPT ![m] = "held"]
    BY <1>1, <1>4, <2>1 DEF AbsStatus
  <2>4. Abstract!Accept(m)
    BY <1>1, <2>2, <2>3 DEF Abstract!Accept
  <2>5. QED
    BY <1>4, <2>4 DEF Abstract!Next
<1>5. QED
  BY <1>3, <1>4

LEMMA AbstractSettle ==
  ASSUME RefusalInv, DeliveryInv, ~reused, NEW n \in list_pub_wait_ack, n.msg \in Qos1Msgs,
         ProcRemove(n)
  PROVE  [Abstract!Next]_(Abstract!vars)
<1> DEFINE m == n.msg
<1>1. /\ list_pub_wait_ack' = list_pub_wait_ack \ {n} /\ n.node_state = "INVALID"
      /\ accepted' = accepted /\ received' = received
  BY DEF ProcRemove, histVars
<1>2. m \in received /\ m \in accepted /\ m \in Held
  BY <1>1 DEF DeliveryInv, AckedArrived, RefusalInv, Held
<1>3. Held \ {m} \subseteq Held' /\ Held' \subseteq Held
  BY <1>1 DEF Held
<1>4. CASE m \in Held'
  <2>1. Held' = Held
    BY <1>3, <1>4
  <2>2. QED
    BY <1>1, <2>1, AbstractStutter
<1>5. CASE m \notin Held'
  <2>1. AbsStatus[m] = "held"
    BY <1>2 DEF AbsStatus
  <2>2. Held' = Held \ {m}
    BY <1>3, <1>5
  <2>3. AbsStatus' = [AbsStatus EXCEPT ![m] = "settled"]
    BY <1>1, <1>2, <2>2 DEF AbsStatus
  <2>4. Abstract!Settle(m)
    BY <1>1, <1>2, <2>1, <2>3 DEF Abstract!Settle
  <2>5. QED
    BY <2>4 DEF Abstract!Next
<1>6. QED
  BY <1>4, <1>5

LEMMA AbstractDeliver ==
  ASSUME RefusalInv, DeliveryInv, ~reused, NEW p \in Packet, Delivers(p)
  PROVE  [Abstract!Next]_(Abstract!vars)
<1> DEFINE m == p.msg
<1>1. /\ received' = received \cup {m} /\ accepted' = accepted /\ Held' = Held
      /\ m \in accepted
  BY DEF Delivers, RefusalInv, Held
<1>2. AbsStatus' = AbsStatus
  BY <1>1 DEF AbsStatus
<1>3. CASE m \in received \/ m \notin Qos1Msgs
  BY <1>1, <1>2, <1>3 DEF Abstract!vars
<1>4. CASE m \notin received /\ m \in Qos1Msgs
  <2>1. m \in Held
    BY <1>1, <1>4 DEF DeliveryInv, Kept, Promised, Held
  <2>2. AbsStatus[m] = "held"
    BY <1>4, <2>1 DEF AbsStatus
  <2>3. Abstract!Deliver(m)
    BY <1>1, <1>2, <1>4, <2>2 DEF Abstract!Deliver
  <2>4. QED
    BY <1>4, <2>3 DEF Abstract!Next
<1>5. QED
  BY <1>3, <1>4

LEMMA AbstractStep ==
  TypeInv /\ RefusalInv /\ DeliveryInv /\ ~reused /\ [Next]_vars => [Abstract!Next]_(Abstract!vars)
<1> SUFFICES ASSUME TypeInv, RefusalInv, DeliveryInv, ~reused, [Next]_vars
             PROVE  [Abstract!Next]_(Abstract!vars)
  OBVIOUS
<1>1. CASE Quiet
  BY <1>1, AbstractStutter DEF Quiet, Held
<1>2. ASSUME NEW t \in Publishers,
             \/ \E m \in Msgs : PublishBegin(t, m)
             \/ PublishListFull(t) \/ PublishFailed(t) \/ PublishSetState(t)
      PROVE  UNCHANGED Abstract!vars
  <2>1. UNCHANGED <<list_pub_wait_ack, accepted, received>>
    BY <1>2 DEF PublishBegin, PublishListFull, PublishFailed, PublishSetState, clientVars, histVars
  <2>2. QED
    BY <2>1, AbstractStutter DEF Held
<1>3. CASE CycleReadPacket
  <2>1. Held' \subseteq Held
    BY <1>3, MaskedNodes DEF Held
  <2>2. Held \subseteq Held'
    <3> SUFFICES ASSUME NEW n \in list_pub_wait_ack
                 PROVE  \E o \in list_pub_wait_ack' : o.msg = n.msg
      BY DEF Held
    <3> DEFINE o == [n EXCEPT !.node_state = "INVALID"]
    <3>1. o.msg = n.msg
      BY DEF TypeInv, TypeOK, Node
    <3>2. n \in list_pub_wait_ack' \/ o \in list_pub_wait_ack'
      BY <1>3 DEF CycleReadPacket, Masked
    <3> HIDE DEF o
    <3>3. QED
      BY <3>1, <3>2
  <2>3. QED
    BY <1>3, <2>1, <2>2, AbstractStutter, MaskedNodes
<1>4. ASSUME NEW n \in list_pub_wait_ack, Retimes(n) PROVE UNCHANGED Abstract!vars
  <2>1. Held' = Held
    BY <1>4, RetimedNodes DEF Held
  <2>2. QED
    BY <1>4, <2>1, AbstractStutter DEF Retimes
<1>5. ASSUME NEW n \in list_pub_wait_ack, ProcRemove(n) PROVE [Abstract!Next]_(Abstract!vars)
  <2>1. n.msg \in Qos1Msgs
    BY DEF TypeInv, TypeOK, Node
  <2>2. QED
    BY <1>5, <2>1, AbstractSettle
<1>6. QED
  BY <1>1, <1>2, <1>3, <1>4, <1>5, AbstractAccept, AbstractDeliver, StepCases

\* The QoS 1 half of the client implements the at-least-once contract in every run that
\* hands out no identifier still in use.
THEOREM ImplementsContract == Spec /\ [](~reused) => ImplementsAtLeastOnce
<1>1. Init => RefusalInv /\ DeliveryInv
  BY PacketsEmpty DEF Init, RefusalInv, DeliveryInv, IdsExclusive, IdsAgree, AckedArrived, Kept,
    Promised, Idle
<1>2. QED
  BY InitType, TypeStep, RefusalStep, DeliveryStep, AbstractInit, AbstractStep, <1>1, PTL
  DEF Spec, ImplementsAtLeastOnce, Abstract!Spec
=============================================================================
