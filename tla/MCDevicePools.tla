--------------------------- MODULE MCDevicePools ---------------------------
(***************************************************************************)
(* Few nodes, devices and pieces of device memory, for TLC.                *)
(***************************************************************************)
EXTENDS DevicePools, TLC

Symmetric == Permutations(Threads) \cup Permutations(DeviceMemory)

=============================================================================
