--------------------------- MODULE SpeedLimit_proofs ---------------------------
(***************************************************************************)
(* What the limiter believes is what the kernel does, for any entries,     *)
(* interfaces, overlapping firings and number of disturbances.             *)
(***************************************************************************)
EXTENDS SpeedLimit, FiniteSetTheorems, WellFoundedInduction, TLAPS

-------------------------------------------------------------------------------
(* Facts about plans. *)

Snaps == EntrySets \cup {{}}

(* A set of naturals has a least element, and Least is it.                    *)
LEMMA LeastOfNats ==
    ASSUME NEW S \in SUBSET Nat, S # {}
    PROVE  Least(S) \in S /\ \A x \in S : Least(S) <= x
<1>1. \E x \in S : \A y \in S : ~ (<<y, x>> \in OpToRel(<, Nat))
  BY WFMin, NatLessThanWellFounded
<1>2. \A x, y \in Nat : y < x => <<y, x>> \in OpToRel(<, Nat)
  BY DEF OpToRel
<1>3. PICK x \in S : \A y \in S : ~ (<<y, x>> \in OpToRel(<, Nat))
  BY <1>1
<1>4. \A y \in S : x <= y
  <2> SUFFICES ASSUME NEW y \in S PROVE x <= y
    OBVIOUS
  <2>1. ~ (y < x)
    BY <1>2, <1>3
  <2> QED BY <2>1
<1> QED
  BY <1>4, Zenon DEF Least

(* The place in the order of a finite set is a natural.                       *)
LEMMA RankType ==
    ASSUME NEW S \in SUBSET Int, IsFiniteSet(S), NEW x \in Int
    PROVE  Rank(x, S) \in Nat
  BY FS_Subset, FS_CardinalityType DEF Rank

(* A larger element has a later place.                                        *)
LEMMA RankGrows ==
    ASSUME NEW S \in SUBSET Int, IsFiniteSet(S), NEW x \in S, NEW y \in S, x < y
    PROVE  Rank(x, S) < Rank(y, S)
<1> DEFINE A == {z \in S : z < x}
           B == {z \in S : z < y}
<1>1. IsFiniteSet(A) /\ IsFiniteSet(B)
  BY FS_Subset
<1>2. A \subseteq B /\ x \in B /\ x \notin A
  <2>1. \A z \in Int : z < x => z < y
    OBVIOUS
  <2>2. x \in Int /\ ~ (x < x)
    OBVIOUS
  <2> QED BY <2>1, <2>2
<1>3. Cardinality(A) <= Cardinality(B) /\ Cardinality(A) # Cardinality(B)
  <2> HIDE DEF A, B
  <2> QED BY <1>1, <1>2, FS_Subset
<1>4. Cardinality(A) \in Nat /\ Cardinality(B) \in Nat
  BY <1>1, FS_CardinalityType
<1> QED
  BY <1>3, <1>4 DEF Rank

(* What is accepted of a set of entries has finitely many ports and rates.    *)
LEMMA FiniteRates ==
    ASSUME NEW E \in Snaps
    PROVE  /\ RateSet(E) \subseteq Nat /\ IsFiniteSet(RateSet(E))
           /\ PortsOf(E) \subseteq Nat /\ IsFiniteSet(PortsOf(E))
           /\ \A q \in PortsOf(E) : PortRate(E, q) \in RateSet(E)
<1>1. IsFiniteSet(E) /\ \A e \in E : e.port \in Int /\ e.rate \in Int
  BY EntriesTyped, FS_EmptySet DEF Snaps
<1>2. IsFiniteSet(Accepted(E)) /\ \A e \in Accepted(E) : e.port \in Nat /\ e.rate \in Nat
  BY <1>1, FS_Subset DEF Accepted
<1>3. RateSet(E) \subseteq Nat /\ PortsOf(E) \subseteq Nat
  BY <1>2 DEF RateSet, PortsOf
<1>4. IsFiniteSet(RateSet(E))
  <2>1. [e \in Accepted(E) |-> e.rate] \in Surjection(Accepted(E), RateSet(E))
    BY DEF Surjection, RateSet
  <2> QED BY <1>2, <2>1, FS_Surjection
<1>5. IsFiniteSet(PortsOf(E))
  <2>1. [e \in Accepted(E) |-> e.port] \in Surjection(Accepted(E), PortsOf(E))
    BY DEF Surjection, PortsOf
  <2> QED BY <1>2, <2>1, FS_Surjection
<1>6. ASSUME NEW q \in PortsOf(E) PROVE PortRate(E, q) \in RateSet(E)
  <2>1. RatesAt(E, q) \subseteq RateSet(E) /\ RatesAt(E, q) # {}
    BY DEF RatesAt, RateSet, PortsOf
  <2>2. Least(RatesAt(E, q)) \in RatesAt(E, q)
    BY <1>3, <2>1, LeastOfNats
  <2> QED BY <2>1, <2>2 DEF PortRate
<1> QED
  BY <1>3, <1>4, <1>5, <1>6

(* The classes of a plan: numbers below the one of unlimited traffic, no two  *)
(* rates with the same number.                                                *)
LEMMA ClassFacts ==
    ASSUME NEW E \in Snaps
    PROVE  /\ PlanRates(E) \subseteq Nat /\ PlanRates(E) \subseteq RateSet(E)
           /\ \A r \in RateSet(E) : ClassOfRate(E, r) \in Int
           /\ \A r \in PlanRates(E) : ClassOfRate(E, r) < DefaultClassId
           /\ \A r, s \in PlanRates(E) : ClassOfRate(E, r) = ClassOfRate(E, s) => r = s
<1>1. RateSet(E) \subseteq Nat /\ IsFiniteSet(RateSet(E)) /\ RateSet(E) \in SUBSET Int
  BY FiniteRates
<1>2. \A r \in RateSet(E) : Rank(r, RateSet(E)) \in Nat
  BY <1>1, RankType
<1>3. \A r, s \in RateSet(E) : r < s => Rank(r, RateSet(E)) < Rank(s, RateSet(E))
  BY <1>1, RankGrows
<1>4. \A r, s \in RateSet(E) : Rank(r, RateSet(E)) = Rank(s, RateSet(E)) => r = s
  BY <1>1, <1>2, <1>3
<1> QED
  BY <1>1, <1>2, <1>4, ClassIds DEF PlanRates, ClassOfRate, MaxClassCount

(* Two plans with the same rates have the same classes, also when rates that  *)
(* found no class free were cut off.                                          *)
LEMMA SameClasses ==
    ASSUME NEW E \in Snaps, NEW F \in Snaps, PlanRates(E) = PlanRates(F)
    PROVE  Plan(E).classes = Plan(F).classes
<1>1. ASSUME NEW D \in Snaps, NEW r \in PlanRates(D)
      PROVE  ClassOfRate(D, r) = FirstClassId + Rank(r, PlanRates(D))
  <2>1. RateSet(D) \in SUBSET Int /\ IsFiniteSet(RateSet(D)) /\ PlanRates(D) \subseteq RateSet(D)
    BY FiniteRates, ClassFacts
  <2>2. \A s \in RateSet(D) : s < r => s \in PlanRates(D)
    <3> SUFFICES ASSUME NEW s \in RateSet(D), s < r PROVE s \in PlanRates(D)
      OBVIOUS
    <3>1. Rank(s, RateSet(D)) < Rank(r, RateSet(D))
      BY <2>1, RankGrows
    <3>2. Rank(s, RateSet(D)) \in Nat /\ Rank(r, RateSet(D)) \in Nat /\ MaxClassCount \in Int
      BY <2>1, RankType, ClassIds DEF MaxClassCount
    <3>3. Rank(r, RateSet(D)) < MaxClassCount
      BY DEF PlanRates
    <3> QED BY <3>1, <3>2, <3>3 DEF PlanRates
  <2>3. {y \in RateSet(D) : y < r} = {y \in PlanRates(D) : y < r}
    BY <2>1, <2>2
  <2> QED BY <2>3 DEF ClassOfRate, Rank
<1>2. \A r \in PlanRates(E) : ClassOfRate(E, r) = ClassOfRate(F, r)
  BY <1>1
<1> QED
  BY <1>2 DEF Plan

(* The rules of a plan: one for each port, and typed.                         *)
LEMMA RuleFacts ==
    ASSUME NEW E \in Snaps
    PROVE  /\ RulePorts(PlanRules(E)) \subseteq Nat
           /\ IsFiniteSet(RulePorts(PlanRules(E)))
           /\ \A r \in PlanRules(E) : r.port \in Int /\ r.class \in Int
           /\ \A r, s \in PlanRules(E) : r.port = s.port => r = s
<1>1. PortsOf(E) \subseteq Nat /\ IsFiniteSet(PortsOf(E))
  BY FiniteRates
<1>2. RulePorts(PlanRules(E)) \subseteq PortsOf(E)
  BY DEF RulePorts, PlanRules, Rule
<1>3. \A r \in PlanRules(E) : r = Rule(E, r.port) /\ r.port \in PortsOf(E)
  BY DEF PlanRules, Rule
<1>4. \A q \in PortsOf(E) : Rule(E, q).class \in Int
  BY FiniteRates, ClassFacts DEF Rule
<1> QED
  BY <1>1, <1>2, <1>3, <1>4, FS_Subset

(* The filter added first has handle 1.                                       *)
LEMMA FirstHandle ==
    ASSUME NEW S \in SUBSET Nat, S # {}
    PROVE  Rank(Least(S), S) = 0
<1> DEFINE l == Least(S)
<1>0. l \in S /\ \A x \in S : l <= x
  BY LeastOfNats
<1> HIDE DEF l
<1>1. {y \in S : y < l} = {}
  <2>1. l \in Nat /\ \A y \in S : y \in Nat /\ l <= y
    BY <1>0
  <2>2. \A y \in S : ~ (y < l)
    BY <2>1
  <2> QED BY <2>2
<1> QED
  BY <1>1, FS_EmptySet DEF Rank, l

-------------------------------------------------------------------------------
(* The inductive invariant. *)

InSync(t) == pc[t] \notin {"idle", "lock"}

\* Whoever is inside Sync holds the mutex, and has something to install.
Holder ==
    /\ \A t \in Firings : InSync(t) <=> mu = t
    /\ \A t \in Firings : InSync(t) => iface \in Ifaces /\ ~Empty(PlanOf(t))

\* No class number twice; filters are numbered from 1; what was changed by hand
\* has no root of ours.
Kernel ==
    \A i \in Ifaces :
        /\ \A a, b \in classes[i] : a.class = b.class => a = b
        /\ filters[i] # {} => \E f \in filters[i] : f.handle = 1
        /\ i \in tampered => root[i] = "os"

ClassOf(t, r) == [class |-> ClassOfRate(snap[t], r), rate |-> r]
Rules(t) == PlanOf(t).rules

\* What a Sync under way has installed so far.
HalfClasses(t) ==
    /\ left \subseteq PlanOf(t).rates
    /\ root[iface] = "htb" =>
         /\ DefaultClass \in classes[iface]
         /\ \A r \in PlanOf(t).rates \ left : ClassOf(t, r) \in classes[iface]

AllClasses(t) == root[iface] = "htb" => PlanOf(t).classes \cup {DefaultClass} \subseteq classes[iface]

\* Where the flush failed, the first filter will be refused.
HalfFilters(t) ==
    /\ left \subseteq RulePorts(Rules(t))
    /\ root[iface] = "htb" =>
         \/ left = RulePorts(Rules(t)) /\ filters[iface] # {}
         \/ filters[iface] = {FilterOf(Rules(t), r) : r \in {x \in Rules(t) : x.port \notin left}}

Half ==
    \A t \in Firings :
        /\ pc[t] \in {"default", "classes", "flush", "filters"} /\ iface \notin tampered
             => root[iface] = "htb"
        /\ pc[t] = "classes" => HalfClasses(t)
        /\ pc[t] \in {"flush", "filters"} => AllClasses(t)
        /\ pc[t] = "filters" => HalfFilters(t)

IInv == TypeOK /\ Holder /\ Kernel /\ Half /\ AppliedIsInForce

(* What a firing's plan is made of.                                           *)
LEMMA PlanOfFacts ==
    ASSUME TypeOK, NEW t \in Firings
    PROVE  /\ snap[t] \in Snaps
           /\ PlanOf(t) \in Plans
           /\ PlanOf(t).rates \subseteq Nat
           /\ PlanOf(t).classes = {ClassOf(t, r) : r \in PlanOf(t).rates}
           /\ \A r \in PlanOf(t).rates : ClassOf(t, r) \in ClassRec /\ ClassOf(t, r).class < DefaultClassId
           /\ \A r, s \in PlanOf(t).rates : ClassOf(t, r).class = ClassOf(t, s).class => r = s
           /\ RulePorts(Rules(t)) \subseteq Nat
           /\ \A r \in Rules(t) : FilterOf(Rules(t), r) \in FilterRec
           /\ \A r, s \in Rules(t) : r.port = s.port => r = s
           /\ Empty(PlanOf(t)) <=> RulePorts(Rules(t)) = {}
<1>1. snap[t] \in Snaps
  BY DEF TypeOK, Snaps
<1> DEFINE E == snap[t]
<1>2. /\ PlanOf(t).rates = PlanRates(E) /\ PlanOf(t).rules = PlanRules(E)
      /\ PlanOf(t).classes = {ClassOf(t, r) : r \in PlanRates(E)}
  BY DEF PlanOf, Plan, ClassOf
<1>3. PlanOf(t) \in Plans
  BY <1>1 DEF PlanOf, Plans, NoPlan, Snaps
<1>4. \A r \in PlanRates(E) :
         ClassOf(t, r) \in ClassRec /\ ClassOf(t, r).class = ClassOfRate(E, r)
  BY <1>1, ClassFacts DEF ClassOf, ClassRec
<1>5. \A r \in Rules(t) : FilterOf(Rules(t), r) \in FilterRec
  <2> SUFFICES ASSUME NEW r \in Rules(t) PROVE FilterOf(Rules(t), r) \in FilterRec
    OBVIOUS
  <2>1. r.port \in Int /\ r.class \in Int /\ RulePorts(Rules(t)) \in SUBSET Int
        /\ IsFiniteSet(RulePorts(Rules(t)))
    BY <1>1, <1>2, RuleFacts DEF Rules
  <2>2. Rank(r.port, RulePorts(Rules(t))) \in Nat
    BY <2>1, RankType
  <2> QED BY <2>1, <2>2 DEF FilterOf, FilterRec
<1>6. Empty(PlanOf(t)) <=> RulePorts(Rules(t)) = {}
  BY DEF Empty, Rules, RulePorts
<1> QED
  BY <1>1, <1>2, <1>3, <1>4, <1>5, <1>6, ClassFacts, RuleFacts DEF Rules

(* Steps that leave Sync's state alone and change neither kernel nor memory.  *)
LEMMA Aside ==
    ASSUME IInv, TypeOK', UNCHANGED <<kernel, memory, mu, iface, left, tampered>>,
           \A t \in Firings : InSync(t) => pc'[t] = pc[t] /\ snap'[t] = snap[t],
           \A t \in Firings : InSync(t) <=> InSync(t)'
    PROVE  IInv'
<1> USE DEF IInv, kernel, memory
<1>1. \A t \in Firings : InSync(t) => PlanOf(t)' = PlanOf(t) /\ Rules(t)' = Rules(t)
  BY DEF PlanOf, Rules
<1>2. Holder'
  BY <1>1 DEF Holder
<1>3. Kernel' /\ AppliedIsInForce'
  BY DEF Kernel, AppliedIsInForce, Installed
<1>4. Half'
  <2> SUFFICES ASSUME NEW t \in Firings, InSync(t)
               PROVE  /\ HalfClasses(t)' <=> HalfClasses(t)
                      /\ AllClasses(t)' <=> AllClasses(t)
                      /\ HalfFilters(t)' <=> HalfFilters(t)
    BY DEF Half, InSync
  <2> QED BY <1>1 DEF HalfClasses, AllClasses, HalfFilters, ClassOf
<1> QED
  BY <1>2, <1>3, <1>4

(* Sync is over: nobody is inside, and memory and kernel agree.               *)
LEMMA Over ==
    ASSUME IInv, TypeOK', Kernel', AppliedIsInForce', mu' = NoFiring,
           \A t \in Firings : pc'[t] \in {"idle", "lock"}
    PROVE  IInv'
<1>1. \A t \in Firings : ~InSync(t)'
  BY DEF InSync
<1>2. Holder' /\ Half'
  BY <1>1, FiringsProper DEF Holder, Half, InSync
<1> QED
  BY <1>2 DEF IInv

(* At the start.                                                              *)
LEMMA InitHolds == Init => IInv
<1> SUFFICES ASSUME Init PROVE IInv
  OBVIOUS
<1>1. TypeOK
  BY IfacesProper DEF Init, TypeOK, Plans, Phases
<1>2. Holder /\ Kernel /\ Half /\ AppliedIsInForce
  BY FiringsProper DEF Init, Holder, Kernel, Half, AppliedIsInForce, InSync
<1> QED
  BY <1>1, <1>2 DEF IInv

(* Removing the root leaves the kernel's part of the invariant.               *)
LEMMA TeardownKeeps ==
    ASSUME TypeOK, Kernel, NEW i, Teardown(i), UNCHANGED tampered
    PROVE  Kernel'
  BY DEF Teardown, TypeOK, Kernel, kernel

(* Removing the root leaves the kernel's state well typed.                    *)
LEMMA TeardownTypes ==
    ASSUME TypeOK, NEW i, Teardown(i)
    PROVE  /\ root' \in [Ifaces -> {"os", "htb"}]
           /\ classes' \in [Ifaces -> SUBSET ClassRec] /\ filters' \in [Ifaces -> SUBSET FilterRec]
  BY DEF Teardown, TypeOK, kernel

(* Steps of the surroundings, of the panel's life, and of firings outside     *)
(* Sync.                                                                      *)
LEMMA OutsideKeeps ==
    ASSUME IInv,
           \/ \E t \in Firings : Collect(t)
           \/ LifeNext \/ EnvNext \/ UNCHANGED vars
    PROVE  IInv'
<1> USE DEF kernel, memory, counters
<1>1. CASE \E t \in Firings : Collect(t)
  <2> PICK t \in Firings : Collect(t)
    BY <1>1
  <2>1. TypeOK'
    BY DEF Collect, IInv, TypeOK, Phases
  <2>2. /\ \A u \in Firings : InSync(u) => pc'[u] = pc[u] /\ snap'[u] = snap[u]
        /\ \A u \in Firings : InSync(u) <=> InSync(u)'
    BY DEF Collect, IInv, TypeOK, InSync
  <2> QED BY <2>1, <2>2, Aside DEF Collect
<1>2. CASE CronStop \/ ServerRestart \/ EditLimits \/ RouteChange \/ UNCHANGED vars
  <2>1. TypeOK'
    <3>1. CASE CronStop
      BY <3>1 DEF CronStop, IInv, TypeOK
    <3>5. CASE ServerRestart
      BY <3>5 DEF ServerRestart, IInv, TypeOK
    <3>2. CASE EditLimits
      BY <3>2 DEF EditLimits, IInv, TypeOK
    <3>3. CASE RouteChange
      BY <3>3 DEF RouteChange, IInv, TypeOK
    <3>4. CASE UNCHANGED vars
      BY <3>4 DEF vars, IInv, TypeOK
    <3> QED BY <1>2, <3>1, <3>2, <3>3, <3>4, <3>5
  <2>2. UNCHANGED <<kernel, memory, mu, pc, snap, iface, left, tampered>>
    BY <1>2 DEF CronStop, ServerRestart, EditLimits, RouteChange, vars
  <2> QED BY <2>1, <2>2, Aside DEF InSync
<1>3. CASE Exit \/ Crash
  <2>1. TypeOK'
    BY <1>3 DEF Exit, Crash, ProcessEnds, Forget, IInv, TypeOK, Plans, Phases
  <2>2. Kernel' /\ AppliedIsInForce'
    BY <1>3 DEF Exit, Crash, ProcessEnds, Forget, IInv, Kernel, AppliedIsInForce
  <2>3. mu' = NoFiring /\ \A t \in Firings : pc'[t] \in {"idle", "lock"}
    BY <1>3 DEF Exit, Crash, ProcessEnds
  <2> QED BY <2>1, <2>2, <2>3, Over
<1>4. CASE Clear
  <2>1. \A t \in Firings : pc[t] \in {"idle", "lock"}
    BY <1>4, FiringsProper DEF Clear, IInv, Holder, InSync
  <2>2. TypeOK'
    <3>1. CASE ~setupDone /\ UNCHANGED <<kernel, memory>>
      BY <1>4, <3>1 DEF Clear, IInv, TypeOK
    <3>2. CASE Teardown(appliedIface) /\ Forget
      <4>1. /\ root' \in [Ifaces -> {"os", "htb"}]
            /\ classes' \in [Ifaces -> SUBSET ClassRec] /\ filters' \in [Ifaces -> SUBSET FilterRec]
        BY <3>2, TeardownTypes DEF IInv
      <4> QED BY <1>4, <3>2, <4>1 DEF Clear, Forget, IInv, TypeOK, Plans
    <3> QED BY <1>4, <3>1, <3>2 DEF Clear
  <2>3. Kernel' /\ AppliedIsInForce'
    <3>1. CASE ~setupDone /\ UNCHANGED <<kernel, memory>>
      BY <1>4, <3>1 DEF Clear, IInv, Kernel, AppliedIsInForce
    <3>2. CASE Teardown(appliedIface) /\ Forget
      BY <1>4, <3>2, TeardownKeeps DEF Clear, IInv, Forget, AppliedIsInForce
    <3> QED BY <1>4, <3>1, <3>2 DEF Clear
  <2> QED BY <1>4, <2>1, <2>2, <2>3, Over DEF Clear
<1>5. ASSUME NEW i \in Ifaces, HumanDeletes(i) PROVE IInv'
  <2>1. TypeOK'
    BY <1>5 DEF HumanDeletes, IInv, TypeOK
  <2>2. /\ UNCHANGED <<memory, mu, pc, snap, iface, left>>
        /\ root'[i] = "os" /\ classes'[i] = {} /\ filters'[i] = {}
        /\ tampered' = tampered \cup {i}
        /\ \A j \in Ifaces \ {i} : root'[j] = root[j] /\ classes'[j] = classes[j] /\ filters'[j] = filters[j]
    BY <1>5 DEF HumanDeletes, IInv, TypeOK
  <2>3. \A t \in Firings : PlanOf(t)' = PlanOf(t) /\ Rules(t)' = Rules(t)
    BY <2>2 DEF PlanOf, Rules
  <2>4. Holder'
    BY <2>2, <2>3 DEF IInv, Holder, InSync
  <2>5. Kernel'
    BY <2>2 DEF IInv, Kernel
  <2>6. AppliedIsInForce'
    BY <2>2 DEF IInv, TypeOK, AppliedIsInForce, Installed
  <2>7. Half'
    <3> SUFFICES ASSUME NEW t \in Firings, InSync(t)
                 PROVE  /\ pc[t] \in {"default", "classes", "flush", "filters"} /\ iface \notin tampered'
                             => root'[iface] = "htb"
                        /\ pc[t] = "classes" => HalfClasses(t)'
                        /\ pc[t] \in {"flush", "filters"} => AllClasses(t)'
                        /\ pc[t] = "filters" => HalfFilters(t)'
      <4>1. \A t \in Firings : ~InSync(t) => pc[t] \notin {"default", "classes", "flush", "filters"}
        BY DEF InSync
      <4> QED BY <2>2, <4>1 DEF Half
    <3>1. iface \in Ifaces
      BY DEF IInv, Holder
    <3>2. CASE iface = i
      BY <2>2, <2>3, <3>1, <3>2 DEF IInv, Half, HalfClasses, AllClasses, HalfFilters
    <3>3. CASE iface # i
      BY <2>2, <2>3, <3>1, <3>3 DEF IInv, Half, HalfClasses, AllClasses, HalfFilters, ClassOf
    <3> QED BY <3>2, <3>3
  <2> QED BY <2>1, <2>4, <2>5, <2>6, <2>7 DEF IInv
<1> QED
  BY <1>1, <1>2, <1>3, <1>4, <1>5 DEF LifeNext, EnvNext

(* What Sync does in one locked step.                                         *)
LEMMA LockedKeeps ==
    ASSUME IInv, NEW t \in Firings, SyncLocked(t)
    PROVE  IInv'
<1> USE DEF kernel, memory, counters
<1>1. mu = NoFiring /\ \A u \in Firings : ~InSync(u)
  BY FiringsProper DEF SyncLocked, SyncNothing, SyncTeardown, SyncNoRoute, SyncSame, SyncStart,
                       CanLock, IInv, Holder
<1>2. \A u \in Firings : pc[u] \in {"idle", "lock"}
  BY <1>1 DEF InSync
<1>3. CASE SyncNothing(t) \/ SyncNoRoute(t) \/ SyncSame(t)
  <2>1. UNCHANGED <<db, route, kernel, memory, life, tampered, counters>> /\ Leave(t)
    BY <1>3 DEF SyncNothing, SyncNoRoute, SyncSame
  <2>2. TypeOK'
    BY <2>1, <1>2 DEF Leave, IInv, TypeOK, Phases
  <2>3. Kernel' /\ AppliedIsInForce'
    BY <2>1, <1>1 DEF IInv, Kernel, AppliedIsInForce, Installed
  <2> QED BY <1>2, <2>1, <2>2, <2>3, Over DEF Leave, IInv, TypeOK
<1>4. CASE SyncTeardown(t)
  <2>1. /\ root' \in [Ifaces -> {"os", "htb"}]
        /\ classes' \in [Ifaces -> SUBSET ClassRec] /\ filters' \in [Ifaces -> SUBSET FilterRec]
    BY <1>4, TeardownTypes DEF SyncTeardown, IInv
  <2>2. TypeOK'
    BY <1>4, <1>2, <2>1 DEF SyncTeardown, Leave, Forget, IInv, TypeOK, Plans, Phases
  <2>3. Kernel' /\ AppliedIsInForce'
    BY <1>4, TeardownKeeps DEF SyncTeardown, IInv, Forget, AppliedIsInForce
  <2> QED BY <1>2, <1>4, <2>2, <2>3, Over DEF SyncTeardown, Leave, IInv, TypeOK
<1>5. CASE SyncStart(t)
  <2>1. /\ UNCHANGED <<db, route, kernel, memory, snap, left, life, tampered, counters>>
        /\ mu' = t /\ iface' = route /\ route \in Ifaces /\ pc[t] = "lock"
        /\ ~Empty(PlanOf(t)) /\ pc' = [pc EXCEPT ![t] = IF NeedsSetup(PlanOf(t)) THEN "root" ELSE "flush"]
    BY <1>5 DEF SyncStart, CanLock, IInv, TypeOK
  <2>2. TypeOK'
    BY <2>1 DEF IInv, TypeOK, Phases
  <2>3. Kernel' /\ AppliedIsInForce'
    BY <2>1, FiringsProper DEF IInv, Kernel, AppliedIsInForce
  <2>4. \A u \in Firings : PlanOf(u)' = PlanOf(u) /\ Rules(u)' = Rules(u)
    BY <2>1 DEF PlanOf, Rules
  <2>5. pc'[t] \in {"root", "flush"} /\ \A u \in Firings \ {t} : pc'[u] = pc[u]
    BY <2>1 DEF IInv, TypeOK
  <2>6. Holder'
    BY <2>1, <2>4, <2>5, <1>2 DEF Holder, InSync
  <2>7. ASSUME pc'[t] = "flush"
        PROVE  /\ root[route] = "htb" => PlanOf(t).classes \cup {DefaultClass} \subseteq classes[route]
               /\ route \notin tampered => root[route] = "htb"
    <3>1. ~NeedsSetup(PlanOf(t))
      BY <2>1, <2>7 DEF IInv, TypeOK
    <3>2. setupDone /\ appliedIface = route /\ applied.rates = PlanOf(t).rates
      BY <3>1 DEF NeedsSetup, SameRates
    <3>3. applied.classes = PlanOf(t).classes
      <4>1. PICK F \in Snaps : applied = Plan(F)
        BY DEF IInv, TypeOK, Plans, NoPlan, Snaps
      <4>2. snap[t] \in Snaps
        BY DEF IInv, TypeOK, Snaps
      <4>3. PlanRates(F) = PlanRates(snap[t])
        BY <3>2, <4>1 DEF PlanOf, Plan
      <4> QED BY <4>1, <4>2, <4>3, SameClasses DEF PlanOf
    <3>4. route \notin tampered => Installed(route, applied)
      BY <1>1, <3>2 DEF IInv, AppliedIsInForce
    <3>5. route \in tampered => root[route] = "os"
      BY <2>1 DEF IInv, Kernel
    <3> QED BY <3>3, <3>4, <3>5 DEF Installed
  <2>8. Half'
    BY <1>2, <2>1, <2>4, <2>5, <2>7 DEF Half, AllClasses
  <2> QED BY <2>2, <2>3, <2>6, <2>8 DEF IInv
<1> QED
  BY <1>3, <1>4, <1>5 DEF SyncLocked

(* One tc command, or the end of Sync.                                        *)
LEMMA CommandsKeep ==
    ASSUME IInv, NEW t \in Firings, TcSteps(t)
    PROVE  IInv'
<1> USE DEF kernel, memory, counters
<1> DEFINE P == PlanOf(t)
           Ports == RulePorts(Rules(t))
<1>1. /\ mu = t /\ t # NoFiring /\ iface \in Ifaces /\ ~Empty(P) /\ InSync(t)
      /\ \A u \in Firings \ {t} : ~InSync(u) /\ pc[u] \in {"idle", "lock"}
  <2>1. InSync(t)
    BY DEF TcSteps, TcRoot, TcDefault, TcClass, SetupDone, TcFlush, TcFilter, SyncDone, TcFails, InSync
  <2> QED BY <2>1, FiringsProper DEF IInv, Holder, InSync
<1>2. TypeOK /\ Holder /\ Kernel /\ Half
  BY DEF IInv
<1>3. /\ P \in Plans /\ P.rates \subseteq Nat
      /\ P.classes = {ClassOf(t, r) : r \in P.rates}
      /\ \A r \in P.rates : ClassOf(t, r) \in ClassRec /\ ClassOf(t, r).class < DefaultClassId
      /\ \A r, s \in P.rates : ClassOf(t, r).class = ClassOf(t, s).class => r = s
      /\ Ports \subseteq Nat /\ Ports # {}
      /\ \A r \in Rules(t) : FilterOf(Rules(t), r) \in FilterRec
      /\ \A r, s \in Rules(t) : r.port = s.port => r = s
  BY <1>1, <1>2, PlanOfFacts
<1>4. DefaultClass \in ClassRec /\ DefaultClass.class = DefaultClassId /\ DefaultClassId \in Nat
  BY ClassIds, UnlimitedNat DEF DefaultClass, ClassRec
\* A step of t that stays inside Sync.
<1>5. ASSUME mu' = mu, iface' = iface, snap' = snap, UNCHANGED memory,
             pc'[t] \notin {"idle", "lock"}, \A u \in Firings \ {t} : pc'[u] = pc[u]
      PROVE  /\ PlanOf(t)' = P /\ Rules(t)' = Rules(t)
             /\ \A r : ClassOf(t, r)' = ClassOf(t, r)
             /\ Holder' /\ AppliedIsInForce'
             /\ \A u \in Firings \ {t} : pc'[u] \in {"idle", "lock"}
  <2>1. \A u \in Firings : PlanOf(u)' = PlanOf(u) /\ Rules(u)' = Rules(u)
    BY <1>5 DEF PlanOf, Rules
  <2>2. Holder'
    BY <1>1, <1>2, <1>5, <2>1 DEF Holder, InSync
  <2>3. AppliedIsInForce'
    BY <1>1, <1>5 DEF AppliedIsInForce
  <2> QED BY <1>1, <1>5, <2>1, <2>2, <2>3 DEF ClassOf
<1> HIDE DEF P, Ports
<1>6. CASE TcRoot(t)
  <2>1. TypeOK'
    BY <1>1, <1>2, <1>6 DEF TcRoot, TypeOK, Phases
  <2>2. /\ root' = [root EXCEPT ![iface] = "htb"] /\ tampered' = tampered \ {iface}
        /\ classes'[iface] \in {{}, classes[iface]} /\ filters'[iface] \in {{}, filters[iface]}
        /\ \A j \in Ifaces \ {iface} : classes'[j] = classes[j] /\ filters'[j] = filters[j]
        /\ pc' = [pc EXCEPT ![t] = "default"]
        /\ UNCHANGED <<memory, mu, snap, iface, left>>
    BY <1>1, <1>2, <1>6 DEF TcRoot, TypeOK
  <2>3. Kernel'
    BY <1>1, <1>2, <2>2 DEF Kernel, TypeOK
  <2>4. pc'[t] = "default" /\ root'[iface] = "htb" /\ \A u \in Firings \ {t} : pc'[u] = pc[u]
    BY <1>1, <1>2, <2>2 DEF TypeOK
  <2>5. Holder' /\ AppliedIsInForce' /\ \A u \in Firings \ {t} : pc'[u] \in {"idle", "lock"}
    BY <1>5, <2>2, <2>4
  <2>6. Half'
    BY <2>2, <2>4, <2>5 DEF Half
  <2> QED BY <2>1, <2>3, <2>5, <2>6 DEF IInv
<1>7. CASE TcDefault(t)
  <2>1. TypeOK'
    BY <1>1, <1>2, <1>3, <1>4, <1>7 DEF TcDefault, WithClass, TypeOK, Phases, P
  <2>2. /\ root' = root /\ root[iface] = "htb" /\ filters' = filters /\ tampered' = tampered
        /\ classes'[iface] = WithClass(iface, DefaultClass)
        /\ \A j \in Ifaces \ {iface} : classes'[j] = classes[j]
        /\ pc'[t] = "classes" /\ \A u \in Firings \ {t} : pc'[u] = pc[u]
        /\ left' = P.rates
        /\ UNCHANGED <<memory, mu, snap, iface>>
    BY <1>1, <1>2, <1>7 DEF TcDefault, TypeOK, P
  <2>3. Kernel'
    BY <1>1, <1>2, <2>2 DEF Kernel, WithClass
  <2>4. /\ PlanOf(t)' = P /\ Holder' /\ AppliedIsInForce'
        /\ \A u \in Firings \ {t} : pc'[u] \in {"idle", "lock"}
    BY <1>5, <2>2
  <2>5. HalfClasses(t)'
    BY <2>2, <2>4 DEF HalfClasses, WithClass
  <2>6. Half'
    BY <2>2, <2>4, <2>5 DEF Half
  <2> QED BY <2>1, <2>3, <2>4, <2>6 DEF IInv
<1>8. CASE TcClass(t)
  <2> DEFINE r == Least(left)
             c == ClassOf(t, r)
  <2>1. pc[t] = "classes" /\ left # {} /\ root[iface] = "htb" /\ HalfClasses(t)
    BY <1>2, <1>8 DEF TcClass, Half
  <2>2. left \subseteq P.rates /\ r \in left
    BY <1>3, <2>1, LeastOfNats DEF HalfClasses, P
  <2>3. c \in ClassRec /\ c.class < DefaultClassId /\ c.class \in Int
    BY <1>3, <2>2 DEF ClassRec
  <2>4. /\ root' = root /\ filters' = filters /\ tampered' = tampered /\ pc' = pc
        /\ classes' = [classes EXCEPT ![iface] = WithClass(iface, c)]
        /\ left' = left \ {r}
        /\ UNCHANGED <<db, route, life, memory, mu, snap, iface>>
    BY <1>8 DEF TcClass, ClassOf
  <2> HIDE DEF r, c
  <2>5. TypeOK'
    BY <1>2, <2>3, <2>4 DEF WithClass, TypeOK
  <2>6. Kernel'
    BY <1>1, <1>2, <2>4 DEF Kernel, WithClass, TypeOK
  <2>7. /\ PlanOf(t)' = P /\ Holder' /\ AppliedIsInForce'
        /\ \A s : ClassOf(t, s)' = ClassOf(t, s)
        /\ \A u \in Firings \ {t} : pc'[u] \in {"idle", "lock"}
    BY <1>1, <1>5, <2>4 DEF InSync
  <2>8. HalfClasses(t)'
    <3>1. classes'[iface] = WithClass(iface, c)
      BY <1>1, <1>2, <2>4 DEF TypeOK
    <3>2. DefaultClass \in classes'[iface]
      BY <1>4, <2>1, <2>3, <3>1 DEF HalfClasses, WithClass
    <3>3. ASSUME NEW s \in P.rates \ left' PROVE ClassOf(t, s) \in classes'[iface]
      <4>1. CASE s = r
        BY <3>1, <4>1 DEF WithClass, c
      <4>2. CASE s # r
        <5>1. ClassOf(t, s).class # c.class
          BY <1>3, <2>2, <4>2 DEF c
        <5>2. ClassOf(t, s) \in classes[iface]
          BY <2>1, <2>4, <4>2 DEF HalfClasses, P
        <5> QED BY <3>1, <5>1, <5>2 DEF WithClass
      <4> QED BY <4>1, <4>2
    <3> QED BY <2>2, <2>4, <2>7, <3>2, <3>3 DEF HalfClasses
  <2>9. Half'
    BY <1>1, <1>2, <2>1, <2>4, <2>7, <2>8 DEF Half
  <2> QED BY <2>5, <2>6, <2>7, <2>9 DEF IInv
<1>9. CASE SetupDone(t)
  <2>1. pc[t] = "classes" /\ left = {} /\ HalfClasses(t)
    BY <1>2, <1>9 DEF SetupDone, Half
  <2>2. /\ pc'[t] = "flush" /\ \A u \in Firings \ {t} : pc'[u] = pc[u]
        /\ UNCHANGED <<db, route, kernel, memory, mu, snap, iface, left, life, tampered>>
    BY <1>2, <1>9 DEF SetupDone, TypeOK
  <2>3. TypeOK'
    BY <1>2, <1>9 DEF SetupDone, TypeOK, Phases
  <2>4. Kernel'
    BY <1>2, <2>2 DEF Kernel
  <2>5. /\ PlanOf(t)' = P /\ Holder' /\ AppliedIsInForce'
        /\ \A u \in Firings \ {t} : pc'[u] \in {"idle", "lock"}
    BY <1>5, <2>2
  <2>6. AllClasses(t)'
    BY <1>3, <2>1, <2>2, <2>5 DEF HalfClasses, AllClasses, P
  <2>7. Half'
    BY <1>2, <2>1, <2>2, <2>5, <2>6 DEF Half
  <2> QED BY <2>3, <2>4, <2>5, <2>7 DEF IInv
<1>10. CASE TcFlush(t)
  <2>1. pc[t] = "flush" /\ AllClasses(t)
    BY <1>2, <1>10 DEF TcFlush, Half
  <2>2. /\ pc'[t] = "filters" /\ \A u \in Firings \ {t} : pc'[u] = pc[u]
        /\ filters'[iface] \in {{}, filters[iface]}
        /\ \A j \in Ifaces \ {iface} : filters'[j] = filters[j]
        /\ left' = Ports
        /\ UNCHANGED <<db, route, root, classes, memory, mu, snap, iface, life, tampered>>
    BY <1>1, <1>2, <1>10 DEF TcFlush, TypeOK, Ports, Rules
  <2>3. TypeOK'
    BY <1>1, <1>2, <1>3, <1>10 DEF TcFlush, TypeOK, Phases, Ports, Rules
  <2>4. Kernel'
    BY <1>1, <1>2, <2>2 DEF Kernel
  <2>5. /\ PlanOf(t)' = P /\ Rules(t)' = Rules(t) /\ Holder' /\ AppliedIsInForce'
        /\ \A u \in Firings \ {t} : pc'[u] \in {"idle", "lock"}
    BY <1>5, <2>2
  <2>6. AllClasses(t)'
    BY <2>1, <2>2, <2>5 DEF AllClasses, P
  <2>7. HalfFilters(t)'
    <3>1. {FilterOf(Rules(t), r) : r \in {x \in Rules(t) : x.port \notin Ports}} = {}
      BY DEF Ports, RulePorts
    <3>2. left' = RulePorts(Rules(t)')
      BY <2>2, <2>5 DEF Ports
    <3> QED BY <2>2, <2>5, <3>1, <3>2 DEF HalfFilters, Ports
  <2>8. Half'
    BY <1>2, <2>1, <2>2, <2>5, <2>6, <2>7 DEF Half
  <2> QED BY <2>3, <2>4, <2>5, <2>8 DEF IInv
<1>11. CASE TcFilter(t)
  <2> DEFINE p == Least(left)
             f == NextFilter(t)
  <2>1. /\ pc[t] = "filters" /\ left # {} /\ root[iface] = "htb" /\ ~HandleTaken(iface, f)
        /\ AllClasses(t) /\ HalfFilters(t)
    BY <1>2, <1>11 DEF TcFilter, Half
  <2>2. left \subseteq Ports /\ p \in left
    BY <1>3, <2>1, LeastOfNats DEF HalfFilters, Ports
  <2>3. PICK q \in Rules(t) : q.port = p /\ f = FilterOf(Rules(t), q)
    BY <2>2 DEF NextFilter, Ports, RulePorts, Rules
  <2>4. f \in FilterRec
    BY <1>3, <2>3
  <2>5. left = Ports => f.handle = 1
    BY <1>3, <2>3, FirstHandle DEF FilterOf, Ports
  <2>6. /\ root' = root /\ classes' = classes /\ tampered' = tampered /\ pc' = pc
        /\ filters' = [filters EXCEPT ![iface] = @ \cup {f}]
        /\ left' = left \ {p}
        /\ UNCHANGED <<db, route, life, memory, mu, snap, iface>>
    BY <1>11 DEF TcFilter
  <2> HIDE DEF p, f
  <2>7. TypeOK'
    BY <1>1, <1>2, <2>4, <2>6 DEF TypeOK
  <2>8. filters[iface] = {FilterOf(Rules(t), r) : r \in {x \in Rules(t) : x.port \notin left}}
    <3>1. left = Ports => ~(\E g \in filters[iface] : g.handle = 1)
      BY <2>1, <2>5 DEF HandleTaken
    <3>2. filters[iface] # {} => \E g \in filters[iface] : g.handle = 1
      BY <1>1, <1>2 DEF Kernel
    <3> QED BY <2>1, <3>1, <3>2 DEF HalfFilters, Ports
  <2>9. \E g \in filters[iface] \cup {f} : g.handle = 1
    <3>1. CASE left = Ports
      BY <2>5, <3>1
    <3>2. CASE left # Ports
      <4>1. PICK r \in Rules(t) : r.port \notin left
        BY <2>2, <3>2 DEF Ports, RulePorts
      <4>2. filters[iface] # {}
        BY <2>8, <4>1
      <4> QED BY <1>1, <1>2, <4>2 DEF Kernel
    <3> QED BY <3>1, <3>2
  <2>10. filters'[iface] = filters[iface] \cup {f} /\ \A j \in Ifaces \ {iface} : filters'[j] = filters[j]
    BY <1>1, <1>2, <2>6 DEF TypeOK
  <2>11. Kernel'
    BY <1>2, <2>6, <2>9, <2>10 DEF Kernel
  <2>12. /\ PlanOf(t)' = P /\ Rules(t)' = Rules(t) /\ Holder' /\ AppliedIsInForce'
         /\ \A u \in Firings \ {t} : pc'[u] \in {"idle", "lock"}
    BY <1>1, <1>5, <2>6 DEF InSync
  <2>13. filters'[iface] = {FilterOf(Rules(t), r) : r \in {x \in Rules(t) : x.port \notin left'}}
    <3>1. \A r \in Rules(t) : r.port \notin left' <=> r.port \notin left \/ r = q
      BY <1>3, <2>3, <2>6
    <3> QED BY <2>3, <2>8, <2>10, <3>1
  <2>14. HalfFilters(t)'
    BY <2>2, <2>6, <2>12, <2>13 DEF HalfFilters, Ports
  <2>15. AllClasses(t)'
    BY <2>1, <2>6, <2>12 DEF AllClasses, P
  <2>16. Half'
    BY <1>2, <2>1, <2>6, <2>12, <2>14, <2>15 DEF Half
  <2> QED BY <2>7, <2>11, <2>12, <2>16 DEF IInv
<1>12. CASE SyncDone(t)
  <2>1. pc[t] = "filters" /\ left = {} /\ AllClasses(t) /\ HalfFilters(t)
    BY <1>2, <1>12 DEF SyncDone, Half
  <2>2. iface \notin tampered => root[iface] = "htb"
    BY <1>2, <2>1 DEF Half
  <2>3. iface \notin tampered => filters[iface] = FiltersOf(Rules(t))
    BY <1>3, <2>1, <2>2 DEF HalfFilters, FiltersOf, Ports
  <2>4. iface \notin tampered => Installed(iface, P)
    BY <1>1, <1>2, <2>1, <2>2, <2>3 DEF Installed, AllClasses, Kernel, P, Rules
  <2>5. UNCHANGED <<db, route, kernel, life, tampered, counters>> /\ Leave(t)
        /\ setupDone' = TRUE /\ applied' = P /\ appliedIface' = iface
    BY <1>12 DEF SyncDone, P
  <2>6. TypeOK'
    BY <1>1, <1>2, <1>3, <2>5, IfacesProper DEF Leave, TypeOK, Phases
  <2>7. Kernel' /\ AppliedIsInForce'
    BY <1>2, <2>4, <2>5 DEF Kernel, AppliedIsInForce, Installed
  <2> QED BY <1>1, <1>2, <2>5, <2>6, <2>7, Over DEF Leave, TypeOK
<1>13. CASE TcFails(t)
  <2>1. UNCHANGED <<db, route, kernel, life, tampered>> /\ Leave(t) /\ Forget
    BY <1>13 DEF TcFails
  <2>2. TypeOK'
    BY <1>1, <1>2, <2>1 DEF Leave, Forget, TypeOK, Plans, Phases
  <2>3. Kernel' /\ AppliedIsInForce'
    BY <1>2, <2>1 DEF Kernel, AppliedIsInForce, Forget
  <2> QED BY <1>1, <1>2, <2>1, <2>2, <2>3, Over DEF Leave, TypeOK
<1> QED
  BY <1>6, <1>7, <1>8, <1>9, <1>10, <1>11, <1>12, <1>13 DEF TcSteps

-------------------------------------------------------------------------------
(* The inductive invariant of every reachable state: a Sync that is under way *)
(* has installed what it has passed, or cannot end well.                      *)
THEOREM Invariant == Spec => []IInv
<1>1. IInv /\ [Next]_vars => IInv'
  BY OutsideKeeps, LockedKeeps, CommandsKeep DEF Next
<1> QED
  BY <1>1, InitHolds, PTL DEF Spec

(* Types, for all entries, interfaces and firings (tc_linux.go:36-186).       *)
THEOREM TypeCorrect == Spec => []TypeOK
<1>1. IInv => TypeOK
  BY DEF IInv
<1> QED
  BY <1>1, Invariant, PTL

(* What the package believes installed is installed, for any number of        *)
(* overlapping firings, failed commands, moves of the route and kills         *)
(* (tc_linux.go:36-85).                                                       *)
THEOREM BelievedIsInForce == Spec => []AppliedIsInForce
<1>1. IInv => AppliedIsInForce
  BY DEF IInv
<1> QED
  BY <1>1, Invariant, PTL

================================================================================
