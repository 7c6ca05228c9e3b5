---------------------------- MODULE MCClientAccess ----------------------------
(* The instances of ClientAccess that TLC checks: one client that is renewed *)
(* and one that is not, so they are not exchangeable.                        *)
EXTENDS ClientAccess
===============================================================================
