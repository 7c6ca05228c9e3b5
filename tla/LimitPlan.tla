------------------------------ MODULE LimitPlan -------------------------------
(***************************************************************************)
(* What limit/limit.go promises of a plan, stated without its loops: which *)
(* entries count, which rate a port gets, which tc class a rate gets.      *)
(* BuildPlan.tla is the algorithm; SpeedLimit.tla uses these definitions.  *)
(*                                                                         *)
(* An entry is [id, port, rate]; remarks, warnings and the wording of      *)
(* Describe are left out.  The code's constants are 10 and 999.            *)
(***************************************************************************)
EXTENDS Integers, FiniteSets

CONSTANTS FirstClassId, DefaultClassId

ASSUME ClassIds ==
    FirstClassId \in Nat \ {0} /\ DefaultClassId \in Nat /\ FirstClassId < DefaultClassId

MaxClassCount == DefaultClassId - FirstClassId

\* Entries with an illegal port or without a limit are skipped.
Accepted(E) == {e \in E : e.port > 0 /\ e.rate > 0}

RateSet(E) == {e.rate : e \in Accepted(E)}
PortsOf(E) == {e.port : e \in Accepted(E)}
RatesAt(E, port) == {e.rate : e \in {x \in Accepted(E) : x.port = port}}

Least(S) == CHOOSE m \in S : \A x \in S : m <= x

\* A port named by several entries gets the strictest rate.
PortRate(E, port) == Least(RatesAt(E, port))

\* Position of x in the ascending order of S, from 0.
Rank(x, S) == Cardinality({y \in S : y < x})

\* Only the MaxClassCount lowest rates get a class.
PlanRates(E) == {r \in RateSet(E) : Rank(r, RateSet(E)) < MaxClassCount}

ClassOfRate(E, r) == FirstClassId + Rank(r, RateSet(E))

Rule(E, port) ==
    [port |-> port, rate |-> PortRate(E, port), class |-> ClassOfRate(E, PortRate(E, port))]

\* Ports whose rate got no class are dropped.
PlanRules(E) == {Rule(E, port) : port \in {q \in PortsOf(E) : PortRate(E, q) \in PlanRates(E)}}

Plan(E) == [rates |-> PlanRates(E),
            classes |-> {[class |-> ClassOfRate(E, r), rate |-> r] : r \in PlanRates(E)},
            rules |-> PlanRules(E)]

Empty(plan) == plan.rules = {}

\* Ascending lists without duplicates are equal exactly when their sets are.
SameRates(a, b) == a.rates = b.rates
SameRules(a, b) == a.rules = b.rules
===============================================================================
