--------------------------------- MODULE Meter ---------------------------------
(***************************************************************************)
(* What the panel's accounting promises of each client: traffic he has     *)
(* caused is open until it is charged, it is charged once at most and      *)
(* never without having been caused, and a charge is only ever taken back  *)
(* whole (a reset, or the end of his account).                             *)
(*                                                                         *)
(* Abstract: TrafficLedger is shown to implement it.                       *)
(***************************************************************************)
EXTENDS Naturals

CONSTANT Clients

VARIABLES
    caused,  \* traffic caused
    open,    \* traffic carried and not yet charged
    charged  \* traffic charged: up + down of the client's row

vars == <<caused, open, charged>>

Init == /\ caused = [c \in Clients |-> 0]
        /\ open = [c \in Clients |-> 0]
        /\ charged = [c \in Clients |-> 0]

Carry(c) ==
    /\ caused' = [caused EXCEPT ![c] = @ + 1]
    /\ open' = [open EXCEPT ![c] = @ + 1]
    /\ UNCHANGED charged

(* What is open may be charged or lost; nothing is charged that was not open. *)
Settled(c) ==
    /\ open'[c] <= open[c]
    /\ charged'[c] >= charged[c]
    /\ charged'[c] - charged[c] <= open[c] - open'[c]

Settle ==
    /\ open' \in [Clients -> Nat] /\ charged' \in [Clients -> Nat]
    /\ \A c \in Clients : Settled(c)
    /\ UNCHANGED caused

Forgive ==
    /\ \E F \in SUBSET Clients : charged' = [c \in Clients |-> IF c \in F THEN 0 ELSE charged[c]]
    /\ UNCHANGED <<caused, open>>

Next == (\E c \in Clients : Carry(c)) \/ Settle \/ Forgive

Spec == Init /\ [][Next]_vars
===============================================================================
