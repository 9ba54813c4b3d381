------------------------------ MODULE MqttReceive ------------------------------
(***************************************************************************)
(* From the bytes of a connection to the handlers of the application       *)
(* (mqtt/iotx_mqtt_client.c, MQTTPacket.c): iotx_mc_read_packet cuts the   *)
(* stream into packets, iotx_mc_cycle sorts them by type, and              *)
(* iotx_mc_deliver_message compares the topic of a PUBLISH with the filter *)
(* of a handler that iotx_mc_check_topic let in.                           *)
(*                                                                         *)
(* One connection is followed.  A byte is known by the packet it belongs   *)
(* to and its part of it; topics are the sequences of their characters,    *)
(* because the code compares them character by character.  Radix stands    *)
(* for 128: a length byte has its top bit set when it is at least Radix.   *)
(***************************************************************************)
EXTENDS Naturals, Sequences, FiniteSets, SequencesExt

CONSTANTS
  Connections,               \* what the broker may write, in order, and the filter subscribed to
  Radix,
  MaxLengthBytes,            \* 4 in the code
  MQTT_DYNBUF_RECV_MARGIN,
  ReadMax,                   \* buf_size_read_max
  CONFIG_MQTT_TOPIC_MAXLEN

Types == {"CONNACK", "PUBLISH", "PUBACK", "SUBACK", "UNSUBACK", "PINGRESP"}
\* Packets the broker writes; rem_len is the remaining length.
Packet == [type : Types, rem_len : Nat, topic : Seq(STRING)]
Connection == [packets : Seq(Packet), filter : Seq(STRING)]

VARIABLES
  packets,           \* what the broker writes on this connection
  list_sub_handle,   \* the filter of the handler on the list
  unread,            \* bytes written by the broker that no read has returned yet
  pc,                \* where the reading thread is
  header,            \* the header byte, buf_read[0]
  rem_len, multiplier, digits,
                     \* iotx_mc_decode_packet: the length so far, what the next digit is worth,
                     \* and how many bytes it took
  packet_type,       \* of iotx_mc_cycle
  handled,           \* history: packets that reached a branch of iotx_mc_cycle, with the branch
  delivered          \* history: PUBLISHes the handler, or else the default handler, was given

decoding == <<rem_len, multiplier, digits>>
vars == <<packets, list_sub_handle, unread, pc, header, decoding, packet_type, handled,
          delivered>>

-----------------------------------------------------------------------------
(* Topics and filters.                                                     *)

IsWild(ch) == ch \in {"+", "#"}

Slashes(s) == {i \in DOMAIN s : s[i] = "/"}
\* Where the levels of a topic are cut: at its slashes, and at both of its ends.
Cuts(s) == {0, Len(s) + 1} \cup Slashes(s)
Cut(s, k) == CHOOSE c \in Cuts(s) : Cardinality({d \in Cuts(s) : d < c}) = k - 1
\* The levels of a topic: what lies between its slashes.
Levels(s) == [k \in 1..(Cardinality(Slashes(s)) + 1) |-> SubSeq(s, Cut(s, k) + 1, Cut(s, k + 1) - 1)]

\* The levels infra_strtok returns.  It skips the empty ones, and it gives up when a
\* single character is left: a last level of one character is seen only after an
\* empty one.
Tokens(s) ==
  LET levels == Levels(s)
      last == Len(levels)
      missed == last > 1 /\ Len(levels[last]) = 1 /\ levels[last - 1] # <<>>
  IN  {k \in DOMAIN levels : levels[k] # <<>> /\ ~(missed /\ k = last)}

\* Fault: a wildcard may share its level with other characters.
CheckRuleLax(level) == TRUE
CheckRule(level) == (\E i \in DOMAIN level : IsWild(level[i])) => Len(level) = 1

\* topicString holds one character less than CONFIG_MQTT_TOPIC_MAXLEN.
Truncated(s) == SubSeq(s, 1, IF Len(s) < CONFIG_MQTT_TOPIC_MAXLEN
                             THEN Len(s) ELSE CONFIG_MQTT_TOPIC_MAXLEN - 1)

\* iotx_mc_check_topic for a filter.  The mask is not set by the first level.
CheckTopic(s) ==
  /\ s # <<>> /\ s[1] = "/"
  /\ Len(s) <= CONFIG_MQTT_TOPIC_MAXLEN
  /\ LET levels == Levels(Truncated(s))
         tokens == Tokens(Truncated(s))
     IN  /\ tokens # {}
         /\ \A k \in tokens : CheckRule(levels[k])
         /\ \A i, j, k \in tokens : i < j /\ j < k => levels[j] # <<"#">>

\* Fault: + takes the separator too.
LevelEndTakesSlash(s, j) == IF j < Len(s) THEN j + 2 ELSE Len(s) + 1
\* Where the level that position j lies in ends.
LevelEnd(s, j) ==
  LET ends == {k \in (j + 1)..Len(s) : s[k] = "/"}
  IN  IF ends = {} THEN Len(s) + 1 ELSE CHOOSE k \in ends : \A l \in ends : k <= l

\* The body of the loop of iotx_mc_is_topic_matched: whether the character at curf stands
\* for the one at curn, and where curn goes then.
Stands(f, n) == (n = "/" => f = "/") /\ (IsWild(f) \/ f = n)
Advance(f, name, j) ==
  CASE f = "+" -> LevelEnd(name, j)
    [] f = "#" -> Len(name) + 1
    [] OTHER -> j + 1

\* curn[curf] is where curn is when curf is there, 0 when the loop ended before.
IsTopicMatched(filter, name) ==
  LET curn[curf \in 1..(Len(filter) + 1)] ==
        IF curf = 1 THEN 1
        ELSE IF curn[curf - 1] \in DOMAIN name /\ Stands(filter[curf - 1], name[curn[curf - 1]])
        THEN Advance(filter[curf - 1], name, curn[curf - 1])
        ELSE 0
  IN  curn[Len(filter) + 1] = Len(name) + 1

-----------------------------------------------------------------------------
(* Bytes.                                                                  *)

\* MQTTPacket_encode: the bytes of a remaining length, lowest digit first.
LengthBytes[n \in Nat] ==
  IF n < Radix THEN <<n>> ELSE <<Radix + (n % Radix)>> \o LengthBytes[n \div Radix]

ASSUME ReceiveAssumption ==
  /\ Connections \subseteq Connection
  /\ Radix \in Nat /\ Radix > 1
  /\ MaxLengthBytes \in Nat \ {0}
  /\ MQTT_DYNBUF_RECV_MARGIN \in Nat /\ MQTT_DYNBUF_RECV_MARGIN > MaxLengthBytes
  /\ ReadMax \in Nat /\ ReadMax > MaxLengthBytes
  /\ CONFIG_MQTT_TOPIC_MAXLEN \in Nat \ {0}
  \* The broker keeps to MQTT: lengths of at most four bytes, no wildcard in the topic
  \* of a PUBLISH.
  /\ \A c \in Connections : \A k \in DOMAIN c.packets :
       /\ Len(LengthBytes[c.packets[k].rem_len]) <= MaxLengthBytes
       /\ \A i \in DOMAIN c.packets[k].topic : ~IsWild(c.packets[k].topic[i])

Byte(k, part, digit) == [pkt |-> k, part |-> part, digit |-> digit]

BytesOf(k, p) ==
  LET length == LengthBytes[p.rem_len]
  IN  <<Byte(k, "header", 0)>>
      \o [i \in DOMAIN length |-> Byte(k, "length", length[i])]
      \o [i \in 1..p.rem_len |-> Byte(k, "body", 0)]

\* The header byte and the length bytes, put back into the buffer.
HeadLen == 1 + Len(LengthBytes[rem_len])
\* _alloc_recv_buffer
BufSizeRead ==
  IF MQTT_DYNBUF_RECV_MARGIN + rem_len + HeadLen > ReadMax
  THEN ReadMax ELSE MQTT_DYNBUF_RECV_MARGIN + rem_len + HeadLen
\* Fault: a packet that fills the buffer to its last byte is taken for too long.
TooLongEarly == rem_len > 0 /\ rem_len + HeadLen >= BufSizeRead
TooLong == rem_len > 0 /\ rem_len + HeadLen > BufSizeRead
NeedReadLen == BufSizeRead - HeadLen
RemainDataLen == rem_len - NeedReadLen

NoByte == Byte(0, "none", 0)

Init ==
  /\ \E c \in Connections :
       CheckTopic(c.filter) /\ list_sub_handle = c.filter /\ packets = c.packets
  /\ unread = FlattenSeq([k \in DOMAIN packets |-> BytesOf(k, packets[k])])
  /\ pc = "header" /\ header = NoByte
  /\ rem_len = 0 /\ multiplier = 1 /\ digits = 0
  /\ packet_type = "RESERVED"
  /\ handled = <<>> /\ delivered = {}

-----------------------------------------------------------------------------
(* iotx_mc_read_packet.  ipstack.read returns as many bytes as came in its *)
(* time; a header read that returns nothing changes nothing.               *)

Read(n) == Len(unread) >= n /\ unread' = SubSeq(unread, n + 1, Len(unread))

\* Some of the n bytes came.  The thread gives the packet up, but not the connection:
\* the next header is whatever comes next.
ReadShort(n) ==
  /\ \E k \in 0..(n - 1) : Read(k)
  /\ pc' = "torn"

ReadHeader ==
  /\ pc = "header"
  /\ Read(1)
  /\ header' = Head(unread)
  /\ rem_len' = 0 /\ multiplier' = 1 /\ digits' = 0
  /\ pc' = "length"
  /\ UNCHANGED <<packets, list_sub_handle, packet_type, handled, delivered>>

\* One round of iotx_mc_decode_packet.
ReadLengthByte ==
  /\ pc = "length" /\ digits < MaxLengthBytes
  /\ Read(1)
  /\ rem_len' = rem_len + (Head(unread).digit % Radix) * multiplier
  /\ multiplier' = multiplier * Radix
  /\ digits' = digits + 1
  /\ pc' = IF Head(unread).digit >= Radix THEN "length" ELSE "body"
  /\ UNCHANGED <<packets, list_sub_handle, header, packet_type, handled, delivered>>

ReadLengthFails ==
  /\ pc = "length"
  /\ IF digits < MaxLengthBytes THEN ReadShort(1) ELSE pc' = "torn" /\ UNCHANGED unread
  /\ UNCHANGED <<packets, list_sub_handle, header, decoding, packet_type, handled, delivered>>

\* The packet fits: packet_type is set from the header byte.
ReadBody ==
  /\ pc = "body" /\ ~TooLong
  /\ Read(rem_len)
  /\ packet_type' = packets[header.pkt].type
  /\ pc' = "dispatch"
  /\ UNCHANGED <<packets, list_sub_handle, header, decoding, handled, delivered>>

ReadBodyShort ==
  /\ pc = "body" /\ ~TooLong /\ ReadShort(rem_len)
  /\ UNCHANGED <<packets, list_sub_handle, header, decoding, packet_type, handled, delivered>>

\* The packet does not fit: the buffer is filled first.
FillBuffer ==
  /\ pc = "body" /\ TooLong
  /\ Read(NeedReadLen)
  /\ pc' = "drop"
  /\ UNCHANGED <<packets, list_sub_handle, header, decoding, packet_type, handled, delivered>>

FillBufferShort ==
  /\ pc = "body" /\ TooLong /\ ReadShort(NeedReadLen)
  /\ UNCHANGED <<packets, list_sub_handle, header, decoding, packet_type, handled, delivered>>

\* The rest is read and dropped, and the call returns success without setting
\* packet_type, which iotx_mc_cycle did not initialise: it is what the stack held.
DropRest ==
  /\ pc = "drop"
  /\ Read(RemainDataLen)
  /\ packet_type' \in Types \cup {"RESERVED", "OTHER"}
  /\ pc' = "dispatch"
  /\ UNCHANGED <<packets, list_sub_handle, header, decoding, handled, delivered>>

DropRestShort ==
  /\ pc = "drop" /\ ReadShort(RemainDataLen)
  /\ UNCHANGED <<packets, list_sub_handle, header, decoding, packet_type, handled, delivered>>

\* A read fails: the client is DISCONNECTED and closes the connection.
ReadError ==
  /\ pc \in {"header", "length", "body", "drop"}
  /\ pc' = "lost"
  /\ UNCHANGED <<packets, list_sub_handle, unread, header, decoding, packet_type, handled,
                 delivered>>

-----------------------------------------------------------------------------
(* The switch of iotx_mc_cycle, up to the reset of the buffer.             *)

\* iotx_mc_deliver_message: the handler when its filter equals or matches the topic,
\* the default handler when none did.
Deliver(k) ==
  LET topic == packets[k].topic
      matched == topic = list_sub_handle \/ IsTopicMatched(list_sub_handle, topic)
  IN  delivered' = delivered \cup {[pkt |-> k, to |-> IF matched THEN "handler" ELSE "default"]}

NextCycle ==
  /\ pc' = "header" /\ header' = NoByte /\ rem_len' = 0 /\ multiplier' = 1 /\ digits' = 0
  /\ packet_type' = "RESERVED"

\* Fault: every type is taken for one of a packet.
DispatchAny ==
  /\ pc = "dispatch"
  /\ handled' = Append(handled, [pkt |-> header.pkt, as |-> packet_type])
  /\ IF packet_type = "PUBLISH" THEN Deliver(header.pkt) ELSE UNCHANGED delivered
  /\ NextCycle
  /\ UNCHANGED <<packets, list_sub_handle, unread>>

Dispatch ==
  /\ pc = "dispatch" /\ packet_type \in Types
  /\ handled' = Append(handled, [pkt |-> header.pkt, as |-> packet_type])
  /\ IF packet_type = "PUBLISH" THEN Deliver(header.pkt) ELSE UNCHANGED delivered
  /\ NextCycle
  /\ UNCHANGED <<packets, list_sub_handle, unread>>

\* MQTT_CPT_RESERVED is taken for a read that found nothing, the rest for an error.
DispatchNothing ==
  /\ pc = "dispatch" /\ packet_type \notin Types
  /\ NextCycle
  /\ UNCHANGED <<packets, list_sub_handle, unread, handled, delivered>>

Next ==
  \/ ReadHeader \/ ReadLengthByte \/ ReadLengthFails
  \/ ReadBody \/ ReadBodyShort
  \/ FillBuffer \/ FillBufferShort \/ DropRest \/ DropRestShort
  \/ ReadError
  \/ Dispatch \/ DispatchNothing

Spec == Init /\ [][Next]_vars

-----------------------------------------------------------------------------
(* Properties.                                                             *)

TypeOK ==
  /\ packets \in Seq(Packet) /\ list_sub_handle \in Seq(STRING)
  /\ \A i \in DOMAIN unread : unread[i].pkt \in DOMAIN packets
  /\ pc \in {"header", "length", "body", "drop", "dispatch", "torn", "lost"}
  /\ header = NoByte \/ header.pkt \in DOMAIN packets
  /\ rem_len \in Nat /\ multiplier \in Nat /\ digits \in 0..MaxLengthBytes
  /\ header # NoByte => rem_len <= packets[header.pkt].rem_len
  /\ packet_type \in Types \cup {"RESERVED", "OTHER"}
  /\ \A i \in DOMAIN handled : handled[i].pkt \in DOMAIN packets /\ handled[i].as \in Types
  /\ delivered \subseteq [pkt : DOMAIN packets, to : {"handler", "default"}]

\* A packet that the read buffer can hold.
Fits(k) == Len(BytesOf(k, packets[k])) <= ReadMax

\* The packet the client turns to.
NextPacket == IF unread = <<>> THEN Len(packets) + 1 ELSE Head(unread).pkt

\* As long as every read returned all of its bytes, the client turns to the next
\* packet exactly at its header.  Up to there it has handled no packet twice, none
\* before an earlier one, and every packet that fits the buffer as what it is - also
\* around packets that do not fit, and those that just do.
HandledAsSent ==
  pc = "header" =>
    /\ unread # <<>> => Head(unread).part = "header"
    /\ \A i, j \in DOMAIN handled : i < j => handled[i].pkt < handled[j].pkt
    /\ \A i \in DOMAIN handled :
         /\ handled[i].pkt < NextPacket
         /\ Fits(handled[i].pkt) => handled[i].as = packets[handled[i].pkt].type
    /\ \A k \in 1..(NextPacket - 1) : Fits(k) => \E i \in DOMAIN handled : handled[i].pkt = k

\* What a filter covers, by the rules of MQTT: + is one level, a final # is the rest
\* and its parent.
LevelCovers(level, name) == level = <<"+">> \/ level = name
Covers(filter, topic) ==
  LET f == Levels(filter)
      t == Levels(topic)
      n == IF Last(f) = <<"#">> THEN Len(f) - 1 ELSE Len(f)
  IN  /\ \A i \in 1..n : f[i] # <<"#">>
      /\ IF n < Len(f) THEN Len(t) >= n ELSE Len(t) = n
      /\ \A i \in 1..n : LevelCovers(f[i], t[i])

\* A handler is given only messages its filter covers, whatever iotx_mc_check_topic
\* lets in: no wildcard reaches past its level.  It takes a filter shorter than
\* CONFIG_MQTT_TOPIC_MAXLEN, because the last character of one as long is not looked at.
DeliveredIsCovered ==
  Len(list_sub_handle) < CONFIG_MQTT_TOPIC_MAXLEN =>
    \A d \in delivered : d.to = "handler" => Covers(list_sub_handle, packets[d.pkt].topic)

\* A message its filter covers reaches the handler, never the default handler, when
\* its topic has no empty level and is as deep as the filter: iotx_mc_is_topic_matched
\* asks a character of each level a wildcard stands for.  It has reached it when the
\* client turns to the next packet in step, if it fits the buffer.
CoveredIsDelivered ==
  \A k \in DOMAIN packets :
    LET f == list_sub_handle
        t == packets[k].topic
    IN  /\ Covers(f, t)
        /\ \A i \in 2..Len(Levels(t)) : Levels(t)[i] # <<>>
        /\ Len(Levels(t)) >= Len(Levels(f))
        => /\ [pkt |-> k, to |-> "default"] \notin delivered
           /\ pc = "header" /\ packets[k].type = "PUBLISH" /\ Fits(k) /\ k < NextPacket
              => [pkt |-> k, to |-> "handler"] \in delivered
=============================================================================
