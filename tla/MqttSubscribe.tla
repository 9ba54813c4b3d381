----------------------------- MODULE MqttSubscribe -----------------------------
(***************************************************************************)
(* Subscriptions of the MQTT client (mqtt/iotx_mqtt_client.c): threads     *)
(* that subscribe, wait for the SUBACK and unsubscribe, any of which may   *)
(* read the packets meant for another, because waiting means to call       *)
(* wrapper_mqtt_yield.                                                     *)
(*                                                                         *)
(* A topic or a filter is the sequence of its levels.  How a connection is *)
(* lost and found again is MqttClient's matter; here it is up or down.     *)
(***************************************************************************)
EXTENDS Naturals, Sequences, FiniteSets

CONSTANTS
  Callers,        \* application threads
  Yielder,        \* the thread that only yields
  NoThread,
  Filters,        \* the topic filters in use
  MaxPacketId,    \* bound: packet identifiers handed out
  MaxFaults       \* bound: how often the connection is lost

ASSUME SubscribeAssumption ==
  /\ Yielder \notin Callers /\ NoThread \notin Callers \cup {Yielder}
  /\ IsFiniteSet(Callers)
  /\ \A f \in Filters : f \in Seq(STRING) /\ f # <<>>
  /\ MaxPacketId \in Nat /\ MaxFaults \in Nat

VARIABLES
  client_state,        \* "CONNECTED" or "DISCONNECTED"
  packet_id,           \* last packet identifier handed out
  list_sub_handle,     \* handlers; the duplicate test makes the list a set
  list_sub_sync_ack,   \* nodes of the threads that wait for a SUBACK
  in_callback,         \* the thread in an event callback; _in_yield_cb is whether there is one
  call,                \* where each thread is in its call
  c2s, s2c,            \* packets in flight to and from the broker
  acked,               \* SUBSCRIBEs whose granting SUBACK the client has read
  faults

vars == <<client_state, packet_id, list_sub_handle, list_sub_sync_ack, in_callback, call,
          c2s, s2c, acked, faults>>

Ids == 1..MaxPacketId
Threads == Callers \cup {Yielder}
\* Two handlers differ in their filter or in the callback and context of their caller.
Handler == [filter : Filters, caller : Callers]
SyncNode == [packet_id : Ids, ack_type : {"UNDEF", "SUCCESS", "NACK"}]

\* A call of IOT_MQTT_Subscribe_Sync or IOT_MQTT_Subscribe.  ret is 0 where the code
\* holds a negative number.
Call == [pc : {"idle", "send", "insert", "flag", "node", "yield", "scan", "loop",
               "succeeded", "failed"},
         kind : {"sync", "async"}, filter : Filters, ret : 0..MaxPacketId, subed : BOOLEAN]
Idle(t) == call[t].pc \in {"idle", "succeeded", "failed"}
At(t, pc) == call[t].pc = pc
Goto(t, pc) == call' = [call EXCEPT ![t].pc = pc]

\* The bound: every call that is about to take a packet identifier finds one.
IdsLeft == packet_id + Cardinality({t \in Callers : At(t, "send")}) < MaxPacketId
\* Fault: the identifier is read without stepping the counter.
TakeIdStuck == packet_id' = packet_id
TakeId == packet_id' = packet_id + 1

Init ==
  /\ client_state = "CONNECTED"
  /\ packet_id = 0
  /\ list_sub_handle = {} /\ list_sub_sync_ack = <<>>
  /\ in_callback = NoThread
  /\ call \in [Callers -> [pc : {"idle"}, kind : {"sync"}, filter : Filters, ret : {0}, subed : {FALSE}]]
  /\ c2s = <<>> /\ s2c = <<>>
  /\ acked = {}
  /\ faults = 0

\* A connection breaks and takes what is in flight with it.
Breaks ==
  /\ faults < MaxFaults /\ faults' = faults + 1
  /\ client_state' = "DISCONNECTED"
  /\ c2s' = <<>> /\ s2c' = <<>>

-----------------------------------------------------------------------------
(* wrapper_mqtt_subscribe and the loop of wrapper_mqtt_subscribe_sync.     *)

SubscribeBegin(t, kind, f) ==
  /\ Idle(t) /\ IdsLeft
  /\ call' = [call EXCEPT ![t] =
       [pc |-> "send", kind |-> kind, filter |-> f, ret |-> 0, subed |-> FALSE]]
  /\ UNCHANGED <<client_state, packet_id, list_sub_handle, list_sub_sync_ack, in_callback,
                 c2s, s2c, acked, faults>>

\* SUBSCRIBE is written under lock_write_buf; the handler is not on the list yet.
SubscribeSent(t) ==
  /\ At(t, "send") /\ client_state = "CONNECTED"
  /\ TakeId
  /\ c2s' = Append(c2s, [type |-> "SUBSCRIBE", id |-> packet_id', filter |-> call[t].filter])
  /\ call' = [call EXCEPT ![t].pc = "insert", ![t].ret = packet_id']
  /\ UNCHANGED <<client_state, list_sub_handle, list_sub_sync_ack, in_callback, s2c, acked, faults>>

\* The state test comes after the identifier.
SubscribeRefused(t) ==
  /\ At(t, "send") /\ client_state # "CONNECTED"
  /\ TakeId
  /\ Goto(t, IF call[t].kind = "sync" THEN "flag" ELSE "failed")
  /\ UNCHANGED <<client_state, list_sub_handle, list_sub_sync_ack, in_callback, c2s, s2c, acked,
                 faults>>

\* The packet cannot be written: the caller marks the client as disconnected.
SubscribeFails(t) ==
  /\ At(t, "send") /\ client_state = "CONNECTED" /\ Breaks
  /\ TakeId
  /\ Goto(t, IF call[t].kind = "sync" THEN "flag" ELSE "failed")
  /\ UNCHANGED <<list_sub_handle, list_sub_sync_ack, in_callback, acked>>

\* Under lock_generic; an identical handler is dropped.
InsertHandler(t) ==
  /\ At(t, "insert")
  /\ list_sub_handle' = list_sub_handle \cup {[filter |-> call[t].filter, caller |-> t]}
  /\ Goto(t, IF call[t].kind = "sync" THEN "flag" ELSE "idle")
  /\ UNCHANGED <<client_state, packet_id, list_sub_sync_ack, in_callback, c2s, s2c, acked, faults>>

\* A call made in an event callback must not wait; _in_yield_cb does not tell whose
\* callback is running.
ReturnAtOnce(t) ==
  /\ At(t, "flag") /\ in_callback # NoThread
  /\ Goto(t, IF call[t].ret = 0 THEN "failed" ELSE "succeeded")
  /\ UNCHANGED <<client_state, packet_id, list_sub_handle, list_sub_sync_ack, in_callback,
                 c2s, s2c, acked, faults>>

WaitForAck(t) ==
  /\ At(t, "flag") /\ in_callback = NoThread
  /\ Goto(t, IF call[t].ret = 0 THEN "yield" ELSE "node")
  /\ UNCHANGED <<client_state, packet_id, list_sub_handle, list_sub_sync_ack, in_callback,
                 c2s, s2c, acked, faults>>

InsertNode(t) ==
  /\ At(t, "node")
  /\ list_sub_sync_ack' = Append(list_sub_sync_ack, [packet_id |-> call[t].ret, ack_type |-> "UNDEF"])
  /\ call' = [call EXCEPT ![t].pc = "yield", ![t].subed = TRUE]
  /\ UNCHANGED <<client_state, packet_id, list_sub_handle, in_callback, c2s, s2c, acked, faults>>

YieldDone(t) ==
  /\ At(t, "yield") /\ in_callback # t
  /\ Goto(t, "scan")
  /\ UNCHANGED <<client_state, packet_id, list_sub_handle, list_sub_sync_ack, in_callback,
                 c2s, s2c, acked, faults>>

\* Fault: the packet identifier of the node is not compared.
OwnNodeAny(t) == list_sub_sync_ack # <<>>
\* The walk over list_sub_sync_ack ends at its first node.
OwnNode(t) == list_sub_sync_ack # <<>> /\ Head(list_sub_sync_ack).packet_id = call[t].ret

ScanSuccess(t) ==
  /\ At(t, "scan") /\ OwnNode(t) /\ Head(list_sub_sync_ack).ack_type = "SUCCESS"
  /\ list_sub_sync_ack' = Tail(list_sub_sync_ack)
  /\ Goto(t, "succeeded")
  /\ UNCHANGED <<client_state, packet_id, list_sub_handle, in_callback, c2s, s2c, acked, faults>>

\* A refused subscription is sent again.
ScanNack(t) ==
  /\ At(t, "scan") /\ OwnNode(t) /\ Head(list_sub_sync_ack).ack_type = "NACK"
  /\ list_sub_sync_ack' = Tail(list_sub_sync_ack)
  /\ call' = [call EXCEPT ![t] = [@ EXCEPT !.pc = "loop", !.ret = 0, !.subed = FALSE]]
  /\ UNCHANGED <<client_state, packet_id, list_sub_handle, in_callback, c2s, s2c, acked, faults>>

ScanNothing(t) ==
  /\ At(t, "scan")
  /\ OwnNode(t) => Head(list_sub_sync_ack).ack_type = "UNDEF"
  /\ Goto(t, "loop")
  /\ UNCHANGED <<client_state, packet_id, list_sub_handle, list_sub_sync_ack, in_callback,
                 c2s, s2c, acked, faults>>

LoopAgain(t) ==
  /\ At(t, "loop") /\ (call[t].ret = 0 => IdsLeft)
  /\ Goto(t, IF call[t].ret = 0 THEN "send" ELSE "yield")
  /\ UNCHANGED <<client_state, packet_id, list_sub_handle, list_sub_sync_ack, in_callback,
                 c2s, s2c, acked, faults>>

\* Fault: the node stays on the list after the call gave up.
LoopTimeoutKeepsNode(t) ==
  /\ At(t, "loop")
  /\ Goto(t, "failed")
  /\ UNCHANGED <<client_state, packet_id, list_sub_handle, list_sub_sync_ack, in_callback,
                 c2s, s2c, acked, faults>>
Without(nodes, i) == SubSeq(nodes, 1, i - 1) \o SubSeq(nodes, i + 1, Len(nodes))
\* The timer of the call has expired: its node goes; no two have one identifier.
LoopTimeout(t) ==
  /\ At(t, "loop")
  /\ \/ \E i \in DOMAIN list_sub_sync_ack :
          /\ list_sub_sync_ack[i].packet_id = call[t].ret
          /\ list_sub_sync_ack' = Without(list_sub_sync_ack, i)
     \/ /\ \A i \in DOMAIN list_sub_sync_ack : list_sub_sync_ack[i].packet_id # call[t].ret
        /\ UNCHANGED list_sub_sync_ack
  /\ Goto(t, "failed")
  /\ UNCHANGED <<client_state, packet_id, list_sub_handle, in_callback, c2s, s2c, acked, faults>>

-----------------------------------------------------------------------------
(* wrapper_mqtt_unsubscribe                                                *)

LevelMatched(l, name) == l = "+" \/ l = name
\* iotx_mc_is_topic_matched: + stands for a level, a final # for one or more.
TopicMatched(filter, topic) ==
  LET n == Len(filter) IN
  IF filter[n] = "#"
  THEN Len(topic) >= n /\ \A i \in 1..(n - 1) : LevelMatched(filter[i], topic[i])
  ELSE Len(topic) = n /\ \A i \in 1..n : LevelMatched(filter[i], topic[i])

\* MQTTUnsubscribe compares with a cur_topic that is strlen + 1 long: its last level
\* ends in the NUL of the string.
CurTopic(f) == [f EXCEPT ![Len(f)] = @ \o "\\0"]
Unsubscribed(f) ==
  {h \in list_sub_handle : h.filter = CurTopic(f) \/ TopicMatched(h.filter, CurTopic(f))}

\* UNSUBSCRIBE is written and the handlers go under one hold of lock_write_buf.
UnsubscribeSent(t, f) ==
  /\ Idle(t) /\ client_state = "CONNECTED"
  /\ IdsLeft /\ TakeId
  /\ c2s' = Append(c2s, [type |-> "UNSUBSCRIBE", id |-> packet_id', filter |-> f])
  /\ list_sub_handle' = list_sub_handle \ Unsubscribed(f)
  /\ UNCHANGED <<client_state, list_sub_sync_ack, in_callback, call, s2c, acked, faults>>

UnsubscribeFails(t) ==
  /\ Idle(t) /\ client_state = "CONNECTED" /\ Breaks
  /\ IdsLeft /\ TakeId
  /\ UNCHANGED <<list_sub_handle, list_sub_sync_ack, in_callback, call, acked>>

UnsubscribeRefused(t) ==
  /\ Idle(t) /\ client_state # "CONNECTED"
  /\ IdsLeft /\ TakeId
  /\ UNCHANGED <<client_state, list_sub_handle, list_sub_sync_ack, in_callback, call, c2s, s2c,
                 acked, faults>>

-----------------------------------------------------------------------------
(* wrapper_mqtt_yield as far as it reads acknowledgements.  lock_yield is  *)
(* held while a packet is handled and its event callback runs.             *)

Yields(t) == in_callback = NoThread /\ (t \in Callers => At(t, "yield"))

\* _iotx_mqtt_event_handle_sub marks the nodes, then the event callback is called.
RecvSuback(t) ==
  /\ Yields(t)
  /\ s2c # <<>> /\ Head(s2c).type \in {"SUBACK", "NACK"}
  /\ LET p == Head(s2c)
         ack == IF p.type = "SUBACK" THEN "SUCCESS" ELSE "NACK"
     IN  /\ list_sub_sync_ack' = [i \in DOMAIN list_sub_sync_ack |->
              IF list_sub_sync_ack[i].packet_id = p.id
              THEN [list_sub_sync_ack[i] EXCEPT !.ack_type = ack] ELSE list_sub_sync_ack[i]]
         /\ acked' = IF p.type = "SUBACK" THEN acked \cup {p.id} ELSE acked
  /\ s2c' = Tail(s2c)
  /\ in_callback' = t
  /\ UNCHANGED <<client_state, packet_id, list_sub_handle, call, c2s, faults>>

RecvUnsuback(t) ==
  /\ Yields(t)
  /\ s2c # <<>> /\ Head(s2c).type = "UNSUBACK"
  /\ s2c' = Tail(s2c)
  /\ in_callback' = t
  /\ UNCHANGED <<client_state, packet_id, list_sub_handle, list_sub_sync_ack, call, c2s, acked,
                 faults>>

CallbackReturns ==
  /\ in_callback # NoThread
  /\ in_callback' = NoThread
  /\ UNCHANGED <<client_state, packet_id, list_sub_handle, list_sub_sync_ack, call, c2s, s2c, acked,
                 faults>>

-----------------------------------------------------------------------------
(* The broker and the connection.                                          *)

BrokerAnswers ==
  /\ c2s # <<>>
  /\ \E type \in IF Head(c2s).type = "SUBSCRIBE" THEN {"SUBACK", "NACK"} ELSE {"UNSUBACK"} :
       s2c' = Append(s2c, [type |-> type, id |-> Head(c2s).id])
  /\ c2s' = Tail(c2s)
  /\ UNCHANGED <<client_state, packet_id, list_sub_handle, list_sub_sync_ack, in_callback, call,
                 acked, faults>>

ConnectionLost ==
  /\ client_state = "CONNECTED" /\ Breaks
  /\ UNCHANGED <<packet_id, list_sub_handle, list_sub_sync_ack, in_callback, call, acked>>

Reconnected ==
  /\ client_state = "DISCONNECTED" /\ in_callback = NoThread
  /\ client_state' = "CONNECTED"
  /\ UNCHANGED <<packet_id, list_sub_handle, list_sub_sync_ack, in_callback, call, c2s, s2c, acked,
                 faults>>

-----------------------------------------------------------------------------
SubscribeStep(t) ==
  \/ \E kind \in {"sync", "async"}, f \in Filters : SubscribeBegin(t, kind, f)
  \/ SubscribeSent(t) \/ SubscribeRefused(t) \/ SubscribeFails(t) \/ InsertHandler(t)
  \/ ReturnAtOnce(t) \/ WaitForAck(t) \/ InsertNode(t) \/ YieldDone(t)
  \/ ScanSuccess(t) \/ ScanNack(t) \/ ScanNothing(t) \/ LoopAgain(t) \/ LoopTimeout(t)
UnsubscribeStep(t) ==
  UnsubscribeRefused(t) \/ UnsubscribeFails(t) \/ \E f \in Filters : UnsubscribeSent(t, f)
YieldStep == CallbackReturns \/ \E t \in Threads : RecvSuback(t) \/ RecvUnsuback(t)

\* The bound is reached: no call under way and no identifier left for another.
NoIdsLeft == (\A t \in Callers : Idle(t)) /\ ~IdsLeft /\ UNCHANGED vars

Next ==
  \/ \E t \in Callers : SubscribeStep(t) \/ UnsubscribeStep(t)
  \/ YieldStep
  \/ BrokerAnswers \/ ConnectionLost \/ Reconnected
  \/ NoIdsLeft

Spec == Init /\ [][Next]_vars

-----------------------------------------------------------------------------
(* Properties.                                                             *)

TypeOK ==
  /\ client_state \in {"CONNECTED", "DISCONNECTED"}
  /\ packet_id \in 0..MaxPacketId
  /\ list_sub_handle \subseteq Handler
  /\ list_sub_sync_ack \in Seq(SyncNode)
  /\ in_callback \in Threads \cup {NoThread}
  /\ call \in [Callers -> Call]
  /\ \A i \in DOMAIN c2s : c2s[i].type \in {"SUBSCRIBE", "UNSUBSCRIBE"} /\ c2s[i].id \in Ids
  /\ \A i \in DOMAIN s2c : s2c[i].type \in {"SUBACK", "NACK", "UNSUBACK"} /\ s2c[i].id \in Ids
  /\ acked \subseteq Ids
  /\ faults \in 0..MaxFaults

\* A synchronous call that waited and returned an identifier was granted that very
\* request, although any thread may have read its SUBACK and other calls scan the
\* same list.
WaitedSuccessIsGranted ==
  \A t \in Callers : At(t, "succeeded") /\ call[t].subed => call[t].ret \in acked

\* Every node of list_sub_sync_ack belongs to a call that is still going to look at
\* it.  A node left behind would hide all the nodes after it, because the walk of
\* wrapper_mqtt_subscribe_sync ends at the first one.
NodesAreOwned ==
  \A i \in DOMAIN list_sub_sync_ack : \E t \in Callers :
    /\ call[t].ret = list_sub_sync_ack[i].packet_id
    /\ call[t].pc \in {"yield", "scan", "loop"}

\* MQTTUnsubscribe says "we have to find the right message handler - indexed by topic":
\* it takes off the list the handlers of the filter that is unsubscribed, and no others.
UnsubscribeFindsHandler ==
  [][\A t \in Callers, f \in Filters :
       UnsubscribeSent(t, f) => list_sub_handle' = {h \in list_sub_handle : h.filter # f}]_vars
=============================================================================
