------------------------------- MODULE MCMqtt -------------------------------
(* Mqtt on a small instance: connections, ids and devices are              *)
(* interchangeable.                                                        *)
EXTENDS Mqtt, TLC

Symmetry == Permutations(Conns) \cup Permutations(ClientIds)
              \cup Permutations(Devices)
=============================================================================
