--------------------------- MODULE MCXraySupervisor ---------------------------
(* The instances of XraySupervisor that TLC checks. *)
EXTENDS XraySupervisor, TLC

\* Handles are only compared for equality: exchanging two of them changes no
\* safety property.
Symmetry == Permutations(Handles)
===============================================================================
