---------------------------- MODULE MCTrafficLedger ----------------------------
(* The instance of TrafficLedger that TLC checks. *)
EXTENDS TrafficLedger, TLC
===============================================================================
