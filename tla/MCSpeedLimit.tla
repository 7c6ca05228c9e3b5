----------------------------- MODULE MCSpeedLimit -----------------------------
(* The instances of SpeedLimit that TLC checks: two classes at most (10, 11), *)
(* two ports, up to three rates.                                              *)
EXTENDS SpeedLimit, TLC

Entry(id, port, rate) == [id |-> id, port |-> port, rate |-> rate]

NoLimits == {}
Two == {Entry(1, 1, 20), Entry(2, 2, 50)}
OneOther == {Entry(2, 2, 30)}
\* A third rate finds no class free.
Three == {Entry(1, 1, 20), Entry(2, 2, 30), Entry(3, 3, 50)}
\* The rates Three gets, the other way round.
Swapped == {Entry(1, 1, 30), Entry(2, 2, 20)}

AllEntrySets == {NoLimits, Swapped, OneOther, Three}
FewEntrySets == {NoLimits, Two, OneOther}

\* Firings and interfaces are only compared for equality.
Symmetry == Permutations(Firings) \cup Permutations(Ifaces)
===============================================================================
