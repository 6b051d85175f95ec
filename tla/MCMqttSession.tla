---------------------------- MODULE MCMqttSession ----------------------------
(* Constants of MqttSession for TLC. *)
EXTENDS MqttSession

AllUpsets == UpsetKinds
DnsOnly == {"dns"}
==============================================================================
