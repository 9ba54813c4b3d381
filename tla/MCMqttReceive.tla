---------------------------- MODULE MCMqttReceive ----------------------------
(* Small instances of MqttReceive for TLC.                                 *)
EXTENDS MqttReceive, TLC

\* Everything of at most n characters that starts with a slash.
Strings(chars, n) == {<<"/">> \o s : s \in UNION {[1..k -> chars] : k \in 0..(n - 1)}}

MCFilters == Strings({"/", "a", "+", "#"}, 5)
MCTopics == Strings({"/", "a", "b"}, 4) \cup {<<"/", "a", "/", "b", "/", "a">>}

Control(type, rem) == [type |-> type, rem_len |-> rem, topic |-> <<>>]
\* A PUBLISH: two bytes for the length of the topic, the topic, the payload.
Publish(topic, payload) ==
  [type |-> "PUBLISH", rem_len |-> 2 + Len(topic) + payload, topic |-> topic]
Ping == Control("PINGRESP", 0)

\* An empty packet, a short one, one that fills the buffer, one that is a byte too long,
\* one with a longer length that is far too long.
MCPackets == {Ping, Control("PUBACK", 2)} \cup {Publish(<<"/", "a">>, n) : n \in {3, 4, 12}}

\* Every filter with every topic, and every sequence of three packets.
MCConnections ==
  {[packets |-> <<Publish(t, 0), Ping>>, filter |-> f] : t \in MCTopics, f \in MCFilters}
  \cup {[packets |-> s, filter |-> <<"/", "a">>] : s \in [1..3 -> MCPackets]}
=============================================================================
