--------------------------- MODULE MCMqttSubscribe ---------------------------
(* Small instances of MqttSubscribe for TLC.                               *)
EXTENDS MqttSubscribe, TLC

CONSTANTS c1, c2

MCCallers == {c1, c2}
MCExact == {<<"a", "b">>}
MCWildcard == {<<"a", "b">>, <<"a", "#">>}
CallerSymmetry == Permutations(MCCallers)
=============================================================================
