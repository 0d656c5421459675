----------------------------- MODULE MCDevices -----------------------------
(* Devices on a small instance: the requests are interchangeable.          *)
EXTENDS Devices, TLC

Symmetry == Permutations(Reqs) \cup Permutations(DeviceIds)
=============================================================================
