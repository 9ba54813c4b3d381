---------------------------- MODULE MCMqttClient ----------------------------
(* Small instances of MqttClient for TLC.                                  *)
EXTENDS MqttClient, TLC

CONSTANTS p1, p2, m1, m2, m3

MCPublishers1 == {p1}
MCPublishers2 == {p1, p2}
MCMsgs1 == {m1}
MCMsgs2 == {m1, m2}
MCMsgs3 == {m1, m2, m3}

\* The threads are interchangeable: no property names one.
ThreadSymmetry == Permutations({p1, p2})
=============================================================================
