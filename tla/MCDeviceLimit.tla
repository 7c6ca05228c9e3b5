---------------------------- MODULE MCDeviceLimit -----------------------------
(* The instances of DeviceLimit that TLC checks.  They are too small for the  *)
(* 18 ticks of the code; only their order and equality matter.                *)
EXTENDS DeviceLimit
===============================================================================
