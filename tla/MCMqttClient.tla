----------------------------- MODULE MCMqttClient -----------------------------
(* MqttClient for TLC: the messages are interchangeable.                    *)
EXTENDS MqttClient, TLC

Symmetry == Permutations(Msgs)
=============================================================================
