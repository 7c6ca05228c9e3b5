------------------------------- MODULE BuildPlan -------------------------------
(***************************************************************************)
(* limit/limit.go:BuildPlan, loop by loop: one pass over the entries fills *)
(* portRate and rateSet; the rates are sorted, cut to maxClassCount and    *)
(* numbered; the ports are sorted and given their rate's class.  LimitPlan *)
(* states the result without loops, and SpeedLimit relies on it.           *)
(***************************************************************************)
EXTENDS LimitPlan, Sequences, SequencesExt

CONSTANTS
    Entries,   \* the entries collectEntries may return
    MaxEntries \* bound: how many of them, repetitions included

ASSUME EntriesTyped == \A e \in Entries : e.port \in Int /\ e.rate \in Int

VARIABLES
    seen,      \* history: the entries the loop has consumed
    portRate,  \* port -> strictest rate so far
    rateSet,   \* the rates so far
    out        \* "none", or the plan

vars == <<seen, portRate, rateSet, out>>

NotYet == [done |-> FALSE]

Init ==
    /\ seen = <<>>
    /\ portRate = [q \in {} |-> 0]
    /\ rateSet = {}
    /\ out = NotYet

\* Mutant of Counts: a zero rate ("no limit") counts as one.
MutantCounts(e) == e.port > 0 /\ e.rate >= 0

Counts(e) == e.port > 0 /\ e.rate > 0

\* Mutant of Stricter: the last inbound on a port wins.
MutantStricter(e) == TRUE

\* "!exists || e.RateMbps < old"
Stricter(e) == e.port \notin DOMAIN portRate \/ e.rate < portRate[e.port]

WithPort(e) ==
    [q \in DOMAIN portRate \cup {e.port} |-> IF q = e.port THEN e.rate ELSE portRate[q]]

\* One iteration of the loop over entries.
Consume(e) ==
    /\ out = NotYet /\ Len(seen) < MaxEntries
    /\ seen' = Append(seen, e)
    /\ IF Counts(e)
       THEN /\ portRate' = IF Stricter(e) THEN WithPort(e) ELSE portRate
            /\ rateSet' = rateSet \cup {e.rate}
       ELSE UNCHANGED <<portRate, rateSet>>
    /\ UNCHANGED out

\* sort.Ints on the keys of a map, in which none is repeated.
SortInts(S) ==
    CHOOSE s \in [1 .. Cardinality(S) -> S] : \A j, k \in DOMAIN s : j < k => s[j] < s[k]

\* Mutant of Cut: one class too many, the default class itself.
MutantCut(rates) == SubSeq(rates, 1, IF Len(rates) > MaxClassCount + 1 THEN MaxClassCount + 1 ELSE Len(rates))

\* rates[:maxClassCount]
Cut(rates) == SubSeq(rates, 1, IF Len(rates) > MaxClassCount THEN MaxClassCount ELSE Len(rates))

\* ClassOfRate: index in the cut list, from FirstClassId.
ClassMap(rates) ==
    [r \in ToSet(rates) |-> FirstClassId + (CHOOSE k \in DOMAIN rates : rates[k] = r) - 1]

\* The loop over the sorted ports leaves out those whose rate got no class.
RuleList(classOf) ==
    LET ports == SortInts({q \in DOMAIN portRate : portRate[q] \in DOMAIN classOf})
    IN  [k \in DOMAIN ports |-> [port |-> ports[k], rate |-> portRate[ports[k]],
                                 class |-> classOf[portRate[ports[k]]]]]

\* Everything after the loop over the entries.
Finish ==
    /\ out = NotYet
    /\ LET rates == Cut(SortInts(rateSet))
       IN  out' = [done |-> TRUE, rates |-> rates, classOf |-> ClassMap(rates),
                   rules |-> RuleList(ClassMap(rates))]
    /\ UNCHANGED <<seen, portRate, rateSet>>

Next == Finish \/ \E e \in Entries : Consume(e)

Spec == Init /\ [][Next]_vars

-------------------------------------------------------------------------------
Seen == ToSet(seen)

(* The loop keeps, whatever the order and the repetitions, exactly the       *)
(* strictest rate of every legal port and the set of all rates seen          *)
(* (limit.go:95-112).                                                        *)
LoopInv ==
    /\ portRate = [q \in PortsOf(Seen) |-> PortRate(Seen, q)]
    /\ rateSet = RateSet(Seen)

(* The plan is the one LimitPlan describes: lowest rates first, classes      *)
(* numbered with them, a rule for every port whose rate has a class, in      *)
(* ascending order (limit.go:122-152).                                       *)
PlanOf(o) ==
    [rates |-> ToSet(o.rates),
     classes |-> {[class |-> o.classOf[r], rate |-> r] : r \in DOMAIN o.classOf},
     rules |-> ToSet(o.rules)]
BuildsThePlan ==
    out.done =>
        /\ PlanOf(out) = Plan(Seen)
        /\ \A j, k \in DOMAIN out.rules : j < k => out.rules[j].port < out.rules[k].port
        /\ \A j, k \in DOMAIN out.rates : j < k => out.rates[j] < out.rates[k]

(* No two rates share a class, and none gets the class of unlimited traffic. *)
ClassesDisjoint ==
    out.done =>
        /\ \A r, s \in DOMAIN out.classOf : out.classOf[r] = out.classOf[s] => r = s
        /\ \A r \in DOMAIN out.classOf : out.classOf[r] \in FirstClassId .. DefaultClassId - 1
===============================================================================
