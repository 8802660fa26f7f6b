------------------------- MODULE MCDroneportSession -------------------------
(***************************************************************************)
(* DroneportSession for TLC: two missions, every configuration.             *)
(***************************************************************************)
EXTENDS DroneportSession

CONSTANTS m1, m2

MCConfigs == SUBSET {"topic", "mock"}

=============================================================================
