--------------------------- MODULE BuildPlan_proofs ---------------------------
(* The loop over the entries keeps the strictest rate of every port, and the *)
(* plan made of it is the one LimitPlan describes, for any entries, in any   *)
(* order.                                                                    *)
EXTENDS BuildPlan, FiniteSetTheorems, TLAPS

\* Adding an element to a sequence adds it to its set.
LEMMA ToSetAppend ==
    ASSUME NEW S, NEW s \in Seq(S), NEW e \in S
    PROVE  ToSet(Append(s, e)) = ToSet(s) \cup {e}
<1>1. DOMAIN Append(s, e) = DOMAIN s \cup {Len(s) + 1}
  OBVIOUS
<1>2. \A k \in DOMAIN s : Append(s, e)[k] = s[k]
  OBVIOUS
<1>3. Append(s, e)[Len(s) + 1] = e
  OBVIOUS
<1> QED
  BY <1>1, <1>2, <1>3 DEF ToSet

\* What the smallest of a set is, once something is known to be it.
LEMMA LeastIs ==
    ASSUME NEW S \in SUBSET Int, NEW m \in S, \A x \in S : m <= x
    PROVE  Least(S) = m
<1>1. Least(S) \in S /\ \A x \in S : Least(S) <= x
  BY Zenon DEF Least
<1>2. Least(S) <= m /\ m <= Least(S) /\ Least(S) \in Int /\ m \in Int
  BY <1>1
<1> QED
  BY <1>2

\* The loop's invariant without CHOOSE: portRate bounds the rates of its port
\* from below and is one of them.
IInv ==
    /\ seen \in Seq(Entries)
    /\ DOMAIN portRate = PortsOf(Seen)
    /\ portRate = [q \in PortsOf(Seen) |-> portRate[q]]
    /\ \A q \in PortsOf(Seen) :
          portRate[q] \in RatesAt(Seen, q) /\ \A x \in RatesAt(Seen, q) : portRate[q] <= x
    /\ rateSet = RateSet(Seen)

\* One iteration, whatever entry it consumes.
LEMMA ConsumeKeeps ==
    ASSUME IInv, NEW e \in Entries, Consume(e)
    PROVE  IInv'
<1>1. Seen' = Seen \cup {e} /\ seen' \in Seq(Entries)
  BY ToSetAppend DEF IInv, Consume, Seen
<1>2. CASE ~Counts(e)
  <2>1. Accepted(Seen') = Accepted(Seen)
    BY <1>1, <1>2 DEF Accepted, Counts
  <2> QED
    BY <1>1, <1>2, <2>1 DEF IInv, Consume, PortsOf, RatesAt, RateSet
<1>3. CASE Counts(e)
  <2>1. Accepted(Seen') = Accepted(Seen) \cup {e}
    BY <1>1, <1>3 DEF Accepted, Counts
  <2>2. PortsOf(Seen') = PortsOf(Seen) \cup {e.port} /\ RateSet(Seen') = RateSet(Seen) \cup {e.rate}
    BY <2>1 DEF PortsOf, RateSet
  <2>3. \A q : RatesAt(Seen', q) = RatesAt(Seen, q) \cup (IF q = e.port THEN {e.rate} ELSE {})
    BY <2>1 DEF RatesAt
  <2>4. rateSet' = RateSet(Seen')
    BY <1>3, <2>2 DEF Consume, IInv
  <2>5. e.port \notin PortsOf(Seen) => RatesAt(Seen, e.port) = {}
    BY DEF PortsOf, RatesAt
  <2>6. e.rate \in Int /\ \A q : RatesAt(Seen, q) \subseteq Int
    <3>1. ToSet(seen) \subseteq Entries
      BY DEF IInv, ToSet
    <3> QED
      BY <3>1, EntriesTyped DEF EntriesTyped, RatesAt, Accepted, Seen
  <2>7. CASE Stricter(e)
    <3>1. portRate' = WithPort(e)
      BY <1>3, <2>7 DEF Consume
    <3>2. /\ DOMAIN portRate' = PortsOf(Seen')
          /\ portRate' = [q \in PortsOf(Seen') |-> portRate'[q]]
      BY <3>1, <2>2 DEF IInv, WithPort
    <3>3. ASSUME NEW q \in PortsOf(Seen')
          PROVE  /\ portRate'[q] \in RatesAt(Seen', q)
                 /\ \A x \in RatesAt(Seen', q) : portRate'[q] <= x
      <4>1. CASE q = e.port
        <5>1. portRate'[q] = e.rate
          BY <3>1, <2>2, <4>1 DEF WithPort
        <5>2. \A x \in RatesAt(Seen, q) : e.rate <= x
          BY <2>5, <2>6, <2>7, <4>1 DEF Stricter, IInv
        <5> QED
          BY <5>1, <5>2, <4>1, <2>3, <2>6
      <4>2. CASE q # e.port
        <5>1. q \in PortsOf(Seen) /\ portRate'[q] = portRate[q]
          BY <3>1, <2>2, <4>2 DEF WithPort, IInv
        <5> QED
          BY <5>1, <4>2, <2>3 DEF IInv
      <4> QED
        BY <4>1, <4>2
    <3> QED
      BY <1>1, <2>4, <3>2, <3>3 DEF IInv
  <2>8. CASE ~Stricter(e)
    <3>1. portRate' = portRate /\ e.port \in PortsOf(Seen) /\ ~(e.rate < portRate[e.port])
      BY <1>3, <2>8 DEF Consume, Stricter, IInv
    <3>2. PortsOf(Seen') = PortsOf(Seen)
      BY <2>2, <3>1
    <3>3. ASSUME NEW q \in PortsOf(Seen')
          PROVE  /\ portRate'[q] \in RatesAt(Seen', q)
                 /\ \A x \in RatesAt(Seen', q) : portRate'[q] <= x
      <4>1. portRate[q] \in Int
        BY <3>2, <2>6 DEF IInv
      <4> QED
        BY <3>1, <3>2, <2>3, <2>6, <4>1 DEF IInv
    <3> QED
      BY <1>1, <2>4, <3>1, <3>2, <3>3 DEF IInv
  <2> QED
    BY <2>7, <2>8
<1> QED
  BY <1>2, <1>3

\* The rest of BuildPlan does not touch what the loop built.
LEMMA Inductive == Spec => []IInv
<1>1. Init => IInv
  BY DEF Init, IInv, Seen, ToSet, PortsOf, RateSet, Accepted
<1>2. IInv /\ [Next]_vars => IInv'
  <2> SUFFICES ASSUME IInv, [Next]_vars PROVE IInv'
    OBVIOUS
  <2>1. CASE Finish
    BY <2>1 DEF Finish, IInv, Seen
  <2>2. ASSUME NEW e \in Entries, Consume(e) PROVE IInv'
    BY <2>2, ConsumeKeeps
  <2>3. CASE UNCHANGED vars
    BY <2>3 DEF vars, IInv, Seen
  <2> QED
    BY <2>1, <2>2, <2>3 DEF Next
<1> QED
  BY <1>1, <1>2, PTL DEF Spec

(* The strictest rate wins on every port, and every rate is counted, for all *)
(* entries, orders and repetitions (limit.go:95-112).                        *)
THEOREM LoopCorrect == Spec => []LoopInv
<1>1. IInv => LoopInv
  <2> SUFFICES ASSUME IInv PROVE LoopInv
    OBVIOUS
  <2>1. ASSUME NEW q \in PortsOf(Seen) PROVE PortRate(Seen, q) = portRate[q]
    <3>1. RatesAt(Seen, q) \subseteq Int
      <4>1. ToSet(seen) \subseteq Entries
        BY DEF IInv, ToSet
      <4> QED
        BY <4>1, EntriesTyped DEF EntriesTyped, RatesAt, Accepted, Seen
    <3> QED
      BY <3>1, LeastIs DEF IInv, PortRate
  <2> QED
    BY <2>1 DEF IInv, LoopInv
<1> QED
  BY <1>1, Inductive, PTL

-------------------------------------------------------------------------------
(* Positions in a finite set of numbers, and its ascending list. *)

Below(x, S) == {y \in S : y < x}

\* A rank is a number below the size of the set and grows with the element.
LEMMA RankGrows ==
    ASSUME NEW S \in SUBSET Int, IsFiniteSet(S), NEW x \in S
    PROVE  /\ Rank(x, S) \in 0 .. Cardinality(S) - 1
           /\ \A y \in S : x < y => Rank(x, S) < Rank(y, S)
<1>1. ASSUME NEW y \in S
      PROVE  /\ IsFiniteSet(Below(y, S)) /\ Cardinality(Below(y, S)) \in Nat
             /\ Rank(y, S) = Cardinality(Below(y, S))
  BY FS_Subset, FS_CardinalityType DEF Below, Rank
<1>2. Cardinality(S) \in Nat /\ Cardinality(Below(x, S)) <= Cardinality(S)
  BY FS_Subset, FS_CardinalityType DEF Below
<1>3. Cardinality(Below(x, S)) # Cardinality(S)
  <2>1. x \in S /\ x \notin Below(x, S) /\ Below(x, S) \in SUBSET S
    BY DEF Below
  <2> QED BY <2>1, FS_Subset
<1>4. ASSUME NEW y \in S, x < y PROVE Cardinality(Below(x, S)) < Cardinality(Below(y, S))
  <2>1. Below(x, S) \in SUBSET Below(y, S) /\ x \in Below(y, S) /\ x \notin Below(x, S)
    <3>1. \A z \in S : z < x => z < y
      BY <1>4
    <3>2. ~(x < x)
      OBVIOUS
    <3> QED BY <1>4, <3>1, <3>2 DEF Below
  <2>2. /\ Cardinality(Below(x, S)) <= Cardinality(Below(y, S))
        /\ Cardinality(Below(x, S)) # Cardinality(Below(y, S))
    BY <1>1, <2>1, FS_Subset
  <2> QED BY <1>1, <2>2
<1> QED BY <1>1, <1>2, <1>3, <1>4

\* Different elements have different ranks.
LEMMA RankInjective ==
    ASSUME NEW S \in SUBSET Int, IsFiniteSet(S), NEW x \in S, NEW y \in S
    PROVE  /\ Rank(x, S) = Rank(y, S) => x = y
           /\ Rank(x, S) < Rank(y, S) => x < y
<1>1. Rank(x, S) \in Int /\ Rank(y, S) \in Int /\ x \in Int /\ y \in Int
  BY RankGrows
<1>2. (x < y => Rank(x, S) < Rank(y, S)) /\ (y < x => Rank(y, S) < Rank(x, S))
  BY RankGrows
<1> QED BY <1>1, <1>2

\* Every position is taken.
LEMMA RankOnto ==
    ASSUME NEW S \in SUBSET Int, IsFiniteSet(S), NEW k \in 0 .. Cardinality(S) - 1
    PROVE  \E x \in S : Rank(x, S) = k
<1> DEFINE f == [x \in S |-> Rank(x, S)]
           T == 0 .. Cardinality(S) - 1
<1>1. f \in [S -> T]
  BY RankGrows
<1>2. \A x, y \in S : f[x] = f[y] => x = y
  BY RankInjective
<1>3. f \in Injection(S, T)
  BY <1>1, <1>2 DEF Injection, IsInjective
<1>4. IsFiniteSet(T) /\ Cardinality(T) = Cardinality(S)
  BY FS_Interval, FS_CardinalityType
<1>5. f \in Surjection(S, T)
  BY <1>3, <1>4, FS_Injection
<1> QED BY <1>5 DEF Surjection

Ascending(s) == \A j, k \in DOMAIN s : j < k => s[j] < s[k]

\* The k-th element of an ascending list of all of S has k - 1 below it.
LEMMA RankOfKth ==
    ASSUME NEW S \in SUBSET Int, IsFiniteSet(S),
           NEW s \in [1 .. Cardinality(S) -> S], Ascending(s), NEW k \in 1 .. Cardinality(S)
    PROVE  Rank(s[k], S) = k - 1 /\ \A x \in S : \E j \in 1 .. Cardinality(S) : s[j] = x
<1> DEFINE n == Cardinality(S)
<1>1. n \in Nat
  BY FS_CardinalityType
<1>2. \A i, j \in 1 .. n : s[i] \in Int /\ (s[i] < s[j] <=> i < j) /\ (s[i] = s[j] => i = j)
  <2>1. \A i, j \in 1 .. n : s[i] \in Int /\ (i < j => s[i] < s[j])
    BY DEF Ascending
  <2> QED BY <1>1, <2>1
<1>3. s \in Surjection(1 .. n, S)
  <2>1. s \in Injection(1 .. n, S)
    BY <1>2 DEF Injection, IsInjective
  <2>2. Cardinality(1 .. n) = n
    BY <1>1, FS_Interval
  <2> QED BY <2>1, <2>2, FS_Injection
<1>4. \A x \in S : \E j \in 1 .. n : s[j] = x
  BY <1>3 DEF Surjection
<1>5. Cardinality(Below(s[k], S)) = k - 1
  <2> DEFINE h == [j \in 1 .. (k - 1) |-> s[j]]
  <2>1. k - 1 \in Nat /\ 1 .. (k - 1) \subseteq 1 .. n
    BY <1>1
  <2>2. h \in [1 .. (k - 1) -> Below(s[k], S)]
    BY <1>1, <1>2, <2>1 DEF Below
  <2>3. \A x \in Below(s[k], S) : \E j \in 1 .. (k - 1) : h[j] = x
    <3>1. ASSUME NEW x \in Below(s[k], S) PROVE \E j \in 1 .. (k - 1) : h[j] = x
      <4>1. x \in S /\ x < s[k]
        BY DEF Below
      <4>2. PICK j \in 1 .. n : s[j] = x
        BY <1>4, <4>1
      <4>3. j \in 1 .. (k - 1)
        BY <1>1, <1>2, <4>1, <4>2
      <4> QED BY <4>2, <4>3
    <3> QED BY <3>1
  <2>4. \A i, j \in 1 .. (k - 1) : h[i] = h[j] => i = j
    BY <1>2, <2>1
  <2>5. h \in Bijection(1 .. (k - 1), Below(s[k], S))
    BY <2>2, <2>3, <2>4 DEF Bijection, Injection, Surjection, IsInjective
  <2> HIDE DEF h
  <2> QED BY <2>1, <2>5, FS_CountingElements DEF ExistsBijection
<1> QED BY <1>4, <1>5 DEF Rank, Below

\* A finite set of numbers has an ascending list, so SortInts is one.
LEMMA SortIntsSorts ==
    ASSUME NEW S \in SUBSET Int, IsFiniteSet(S)
    PROVE  SortInts(S) \in [1 .. Cardinality(S) -> S] /\ Ascending(SortInts(S))
<1> DEFINE n == Cardinality(S)
           g == [k \in 1 .. n |-> CHOOSE x \in S : Rank(x, S) = k - 1]
<1>1. n \in Nat
  BY FS_CardinalityType
<1>2. ASSUME NEW k \in 1 .. n PROVE g[k] \in S /\ Rank(g[k], S) = k - 1
  <2>1. k - 1 \in 0 .. n - 1
    BY <1>1
  <2>2. \E x \in S : Rank(x, S) = k - 1
    BY <2>1, RankOnto
  <2> QED BY <2>2
<1>3. g \in [1 .. n -> S]
  BY <1>2
<1> HIDE DEF g
<1>4. \A j, k \in DOMAIN g : j < k => g[j] < g[k]
  <2>1. ASSUME NEW j \in 1 .. n, NEW k \in 1 .. n, j < k PROVE g[j] < g[k]
    <3>1. Rank(g[j], S) < Rank(g[k], S)
      BY <1>1, <1>2, <2>1
    <3> QED BY <1>2, <3>1, RankInjective
  <2> QED BY <1>3, <2>1
<1> QED BY <1>3, <1>4, Zenon DEF SortInts, Ascending

-------------------------------------------------------------------------------
(* What follows the loop. *)

\* The cut list holds the MaxClassCount lowest rates in ascending order, each
\* at the place its rank gives it.
LEMMA CutKeepsTheLowest ==
    ASSUME NEW S \in SUBSET Int, IsFiniteSet(S)
    PROVE  LET c == Cut(SortInts(S))
           IN  /\ \E m \in Nat : m <= MaxClassCount /\ DOMAIN c = 1 .. m
               /\ Ascending(c)
               /\ \A k \in DOMAIN c : c[k] \in S /\ Rank(c[k], S) = k - 1
               /\ ToSet(c) = {r \in S : Rank(r, S) < MaxClassCount}
<1> DEFINE s == SortInts(S)
           n == Cardinality(S)
           m == IF n > MaxClassCount THEN MaxClassCount ELSE n
           c == Cut(s)
<1>1. n \in Nat /\ MaxClassCount \in Nat /\ m \in Nat /\ m <= n /\ m <= MaxClassCount
  BY FS_CardinalityType, ClassIds DEF MaxClassCount
<1>2. s \in [1 .. n -> S] /\ Ascending(s)
  BY SortIntsSorts
<1> HIDE DEF s
<1>3. s \in Seq(S) /\ Len(s) = n
  BY <1>1, <1>2
<1>4. DOMAIN c = 1 .. m /\ \A k \in 1 .. m : c[k] = s[k]
  BY <1>1, <1>3 DEF Cut
<1> HIDE DEF c
<1>5. Ascending(c)
  BY <1>1, <1>2, <1>4 DEF Ascending
<1>6. \A k \in 1 .. n : s[k] \in S /\ Rank(s[k], S) = k - 1
  BY <1>2, RankOfKth
<1>7. \A k \in DOMAIN c : c[k] \in S /\ Rank(c[k], S) = k - 1
  BY <1>1, <1>4, <1>6
<1>8. ToSet(c) = {r \in S : Rank(r, S) < MaxClassCount}
  <2>1. ASSUME NEW r \in ToSet(c) PROVE r \in S /\ Rank(r, S) < MaxClassCount
    <3>1. PICK k \in DOMAIN c : r = c[k]
      BY DEF ToSet
    <3> QED BY <1>1, <1>4, <1>7, <3>1
  <2>2. ASSUME NEW r \in S, Rank(r, S) < MaxClassCount PROVE r \in ToSet(c)
    <3>1. n > 0
      BY <1>1, RankGrows
    <3>2. PICK k \in 1 .. n : s[k] = r
      BY <1>1, <1>2, <3>1, RankOfKth
    <3>3. k \in DOMAIN c
      BY <1>1, <1>4, <1>6, <2>2, <3>2
    <3> QED BY <1>4, <3>2, <3>3 DEF ToSet
  <2> QED BY <2>1, <2>2
<1> QED BY <1>1, <1>4, <1>5, <1>7, <1>8 DEF s, c

\* ClassOfRate numbers the rates of the cut list from FirstClassId.
LEMMA ClassMapCounts ==
    ASSUME NEW S \in SUBSET Int, IsFiniteSet(S)
    PROVE  LET c == Cut(SortInts(S))
               kept == {r \in S : Rank(r, S) < MaxClassCount}
           IN  ClassMap(c) = [r \in kept |-> FirstClassId + Rank(r, S)]
<1> DEFINE c == Cut(SortInts(S))
           kept == {r \in S : Rank(r, S) < MaxClassCount}
<1>1. ToSet(c) = kept /\ \A k \in DOMAIN c : c[k] \in S /\ Rank(c[k], S) = k - 1 /\ k \in Nat
  BY CutKeepsTheLowest
<1> HIDE DEF c
<1>2. ASSUME NEW r \in kept
      PROVE  (CHOOSE k \in DOMAIN c : c[k] = r) = Rank(r, S) + 1
  <2>1. PICK k \in DOMAIN c : c[k] = r
    BY <1>1 DEF ToSet
  <2>2. \A j \in DOMAIN c : c[j] = r => j = Rank(r, S) + 1
    <3>1. Rank(r, S) \in Int
      BY RankGrows
    <3> QED BY <1>1, <3>1
  <2> QED BY <2>1, <2>2
<1>3. \A r \in kept :
        FirstClassId + (CHOOSE k \in DOMAIN c : c[k] = r) - 1 = FirstClassId + Rank(r, S)
  <2>1. \A r \in kept : \A k : Rank(r, S) \in Int /\ FirstClassId \in Int
                              /\ (k = Rank(r, S) + 1 => FirstClassId + k - 1 = FirstClassId + Rank(r, S))
    <3>1. \A r \in kept : Rank(r, S) \in Int
      BY RankGrows
    <3> QED BY <3>1, ClassIds
  <2> QED BY <1>2, <2>1, Zenon
<1> QED BY <1>1, <1>3 DEF ClassMap, c

\* The plan made of what the loop has built.
Result ==
    LET rates == Cut(SortInts(rateSet))
    IN  [done |-> TRUE, rates |-> rates, classOf |-> ClassMap(rates),
         rules |-> RuleList(ClassMap(rates))]

\* What the loop has built is finite, and the plan, once there, is made of it.
DoneInv ==
    /\ IsFiniteSet(rateSet) /\ IsFiniteSet(DOMAIN portRate)
    /\ out = NotYet \/ out = Result

LEMMA DoneInductive == Spec => []DoneInv
<1>1. Init => DoneInv
  <2>1. ASSUME Init PROVE rateSet = {} /\ DOMAIN portRate = {} /\ out = NotYet
    BY <2>1 DEF Init
  <2> QED BY <2>1, FS_EmptySet DEF DoneInv
<1>2. DoneInv /\ [Next]_vars => DoneInv'
  <2> SUFFICES ASSUME DoneInv, [Next]_vars PROVE DoneInv'
    OBVIOUS
  <2>1. CASE Finish
    BY <2>1 DEF Finish, DoneInv, Result, RuleList
  <2>2. ASSUME NEW e \in Entries, Consume(e) PROVE DoneInv'
    <3>1. out' = NotYet
      BY <2>2 DEF Consume
    <3>2. rateSet' \in {rateSet, rateSet \cup {e.rate}}
      BY <2>2 DEF Consume
    <3>3. DOMAIN portRate' \in {DOMAIN portRate, DOMAIN portRate \cup {e.port}}
      BY <2>2 DEF Consume, WithPort
    <3>4. IsFiniteSet(rateSet') /\ IsFiniteSet(DOMAIN portRate')
      BY <3>2, <3>3, FS_AddElement DEF DoneInv
    <3>5. NotYet' = NotYet
      BY DEF NotYet
    <3> QED BY <3>1, <3>4, <3>5 DEF DoneInv
  <2>3. CASE UNCHANGED vars
    BY <2>3 DEF vars, DoneInv, Result, RuleList
  <2> QED BY <2>1, <2>2, <2>3 DEF Next
<1> QED BY <1>1, <1>2, PTL DEF Spec

\* The finished plan, field by field.
LEMMA ResultIs ==
    ASSUME IInv, DoneInv, out.done
    PROVE  /\ out.rates = Cut(SortInts(RateSet(Seen)))
           /\ ToSet(out.rates) = PlanRates(Seen)
           /\ out.classOf = [r \in PlanRates(Seen) |-> ClassOfRate(Seen, r)]
           /\ out.rules = RuleList(out.classOf)
           /\ RateSet(Seen) \in SUBSET Int /\ IsFiniteSet(RateSet(Seen))
           /\ PortsOf(Seen) \in SUBSET Int /\ IsFiniteSet(PortsOf(Seen))
<1>1. out = Result
  BY DEF DoneInv, NotYet
<1>2. RateSet(Seen) \in SUBSET Int /\ PortsOf(Seen) \in SUBSET Int
  <2>1. ToSet(seen) \subseteq Entries
    BY DEF IInv, ToSet
  <2> QED BY <2>1, EntriesTyped DEF EntriesTyped, RateSet, PortsOf, Accepted, Seen
<1>3. IsFiniteSet(RateSet(Seen)) /\ IsFiniteSet(PortsOf(Seen)) /\ rateSet = RateSet(Seen)
  BY DEF IInv, DoneInv
<1>4. /\ out.rates = Cut(SortInts(RateSet(Seen)))
      /\ out.classOf = ClassMap(out.rates)
      /\ out.rules = RuleList(out.classOf)
  BY <1>1, <1>3 DEF Result
<1>5. ToSet(out.rates) = PlanRates(Seen)
  BY <1>2, <1>3, <1>4, CutKeepsTheLowest DEF PlanRates
<1>6. out.classOf = [r \in PlanRates(Seen) |-> ClassOfRate(Seen, r)]
  BY <1>2, <1>3, <1>4, ClassMapCounts DEF PlanRates, ClassOfRate
<1> QED BY <1>2, <1>3, <1>4, <1>5, <1>6

\* Both invariants of the finished plan are facts about every state.
LEMMA Invariants == Spec => [](LoopInv /\ IInv /\ DoneInv)
  BY LoopCorrect, Inductive, DoneInductive, PTL

(* For all entries, orders and repetitions and any two class ids: the plan   *)
(* is the one LimitPlan describes, lowest rates first, classes numbered with *)
(* them, a rule for every port whose rate has a class, in ascending order    *)
(* (limit.go:122-152).                                                       *)
THEOREM PlanBuilt == Spec => []BuildsThePlan
<1>1. LoopInv /\ IInv /\ DoneInv => BuildsThePlan
  <2> SUFFICES ASSUME LoopInv, IInv, DoneInv, out.done
               PROVE  /\ PlanOf(out) = Plan(Seen)
                      /\ Ascending(out.rates)
                      /\ \A j, k \in DOMAIN out.rules : j < k => out.rules[j].port < out.rules[k].port
    BY DEF BuildsThePlan, Ascending
  <2>1. /\ out.rates = Cut(SortInts(RateSet(Seen)))
        /\ ToSet(out.rates) = PlanRates(Seen)
        /\ out.classOf = [r \in PlanRates(Seen) |-> ClassOfRate(Seen, r)]
        /\ out.rules = RuleList(out.classOf)
        /\ RateSet(Seen) \in SUBSET Int /\ IsFiniteSet(RateSet(Seen))
        /\ PortsOf(Seen) \in SUBSET Int /\ IsFiniteSet(PortsOf(Seen))
    BY ResultIs
  <2>2. Ascending(out.rates)
    BY <2>1, CutKeepsTheLowest
  <2> DEFINE Q == {q \in PortsOf(Seen) : PortRate(Seen, q) \in PlanRates(Seen)}
             ports == SortInts(Q)
             n == Cardinality(Q)
  <2>3. Q \in SUBSET Int /\ IsFiniteSet(Q)
    BY <2>1, FS_Subset
  <2>4. ports \in [1 .. n -> Q] /\ Ascending(ports) /\ n \in Nat
    BY <2>3, SortIntsSorts, FS_CardinalityType
  <2>5. \A q \in Q : \E k \in 1 .. n : ports[k] = q
    <3>1. ASSUME NEW q \in Q PROVE \E k \in 1 .. n : ports[k] = q
      <4>1. n # 0
        BY <2>3, FS_EmptySet
      <4>2. 1 \in 1 .. n
        BY <2>4, <4>1
      <4> HIDE DEF Q, n
      <4> QED BY <2>3, <2>4, <4>2, RankOfKth DEF n
    <3> QED BY <3>1
  <2>6. /\ DOMAIN portRate = PortsOf(Seen)
        /\ \A q \in PortsOf(Seen) : portRate[q] = PortRate(Seen, q)
    BY DEF LoopInv
  <2>7. Q = {q \in DOMAIN portRate : portRate[q] \in DOMAIN out.classOf}
    BY <2>1, <2>6
  <2>8. out.rules = [k \in DOMAIN ports |-> [port |-> ports[k], rate |-> portRate[ports[k]],
                                             class |-> out.classOf[portRate[ports[k]]]]]
    BY <2>1, <2>7 DEF RuleList
  <2> HIDE DEF Q, ports, n
  <2>9. \A k \in 1 .. n : out.rules[k] = Rule(Seen, ports[k])
    <3>1. ASSUME NEW k \in 1 .. n PROVE out.rules[k] = Rule(Seen, ports[k])
      <4>1. ports[k] \in PortsOf(Seen) /\ PortRate(Seen, ports[k]) \in PlanRates(Seen)
        BY <2>4 DEF Q
      <4>2. out.classOf[PortRate(Seen, ports[k])] = ClassOfRate(Seen, PortRate(Seen, ports[k]))
        BY <2>1, <4>1
      <4>3. portRate[ports[k]] = PortRate(Seen, ports[k])
        BY <2>6, <4>1
      <4>4. out.rules[k] = [port |-> ports[k], rate |-> portRate[ports[k]],
                            class |-> out.classOf[portRate[ports[k]]]]
        BY <2>4, <2>8
      <4> QED BY <4>2, <4>3, <4>4 DEF Rule
    <3> QED BY <3>1
  <2>10. DOMAIN out.rules = 1 .. n
    BY <2>4, <2>8
  <2>11. ToSet(out.rules) = PlanRules(Seen)
    <3>1. ToSet(out.rules) = {Rule(Seen, ports[k]) : k \in 1 .. n}
      BY <2>9, <2>10 DEF ToSet
    <3>2. {Rule(Seen, ports[k]) : k \in 1 .. n} = {Rule(Seen, q) : q \in Q}
      BY <2>4, <2>5
    <3>3. PlanRules(Seen) = {Rule(Seen, q) : q \in Q}
      BY DEF PlanRules, Q
    <3> QED BY <3>1, <3>2, <3>3
  <2>12. \A j, k \in DOMAIN out.rules : j < k => out.rules[j].port < out.rules[k].port
    <3>1. ASSUME NEW k \in 1 .. n PROVE out.rules[k].port = ports[k]
      <4>1. out.rules[k] = Rule(Seen, ports[k])
        BY <2>9
      <4>2. Rule(Seen, ports[k]).port = ports[k]
        BY DEF Rule
      <4> QED BY <4>1, <4>2, Zenon
    <3> QED BY <2>4, <2>10, <3>1 DEF Ascending
  <2>13. {[class |-> out.classOf[r], rate |-> r] : r \in DOMAIN out.classOf}
           = {[class |-> ClassOfRate(Seen, r), rate |-> r] : r \in PlanRates(Seen)}
    BY <2>1
  <2>14. PlanOf(out) = Plan(Seen)
    BY <2>1, <2>11, <2>13 DEF PlanOf, Plan
  <2> QED BY <2>2, <2>12, <2>14
<1> QED BY <1>1, Invariants, PTL

(* No two rates share a class, and none gets the class of unlimited traffic, *)
(* however many rates there are (limit.go:128-135).                          *)
THEOREM OneClassEach == Spec => []ClassesDisjoint
<1>1. LoopInv /\ IInv /\ DoneInv => ClassesDisjoint
  <2> SUFFICES ASSUME IInv, DoneInv, out.done
               PROVE  /\ \A r, s \in DOMAIN out.classOf : out.classOf[r] = out.classOf[s] => r = s
                      /\ \A r \in DOMAIN out.classOf :
                            out.classOf[r] \in FirstClassId .. DefaultClassId - 1
    BY DEF ClassesDisjoint
  <2> DEFINE S == RateSet(Seen)
  <2>1. /\ out.classOf = [r \in PlanRates(Seen) |-> ClassOfRate(Seen, r)]
        /\ S \in SUBSET Int /\ IsFiniteSet(S)
    BY ResultIs
  <2>2. DOMAIN out.classOf = PlanRates(Seen)
        /\ \A r \in PlanRates(Seen) : out.classOf[r] = FirstClassId + Rank(r, S)
    BY <2>1 DEF ClassOfRate
  <2>3. \A r \in PlanRates(Seen) : r \in S /\ Rank(r, S) < MaxClassCount
    BY DEF PlanRates
  <2> HIDE DEF S
  <2>4. \A r \in PlanRates(Seen) : Rank(r, S) \in Nat
    BY <2>1, <2>3, RankGrows
  <2>5. \A r, s \in PlanRates(Seen) : Rank(r, S) = Rank(s, S) => r = s
    BY <2>1, <2>3, RankInjective
  <2> QED BY <2>2, <2>3, <2>4, <2>5, ClassIds DEF MaxClassCount
<1> QED BY <1>1, Invariants, PTL
===============================================================================
