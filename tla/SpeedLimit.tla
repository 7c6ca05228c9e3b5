------------------------------ MODULE SpeedLimit ------------------------------
(***************************************************************************)
(* Inbound speed limits: the 10 s reconciliation of web/job/               *)
(* speed_limit_job.go, limit.Sync and limit.Clear (limit/tc_linux.go), and *)
(* the kernel they drive one tc command at a time.                         *)
(*                                                                         *)
(* cron runs every firing in a goroutine of its own; a firing reads the    *)
(* database before it takes the package's mutex, so Firings is a set.      *)
(* The package's three variables live as long as the panel process; the    *)
(* kernel's qdiscs outlive it.  tc and the kernel are external: a command  *)
(* takes effect or fails.                                                  *)
(***************************************************************************)
EXTENDS LimitPlan

CONSTANTS
    EntrySets,   \* what collectEntries can return
    Ifaces, NoIface,
    Firings, NoFiring,
    Unlimited,   \* unlimitedRateMbit
    MaxEdits,    \* bound: changes of the inbounds
    MaxFails,    \* bound: tc commands that fail for no reason the model sees
    MaxRoutes,   \* bound: changes of the default route
    MaxHuman,    \* bound: qdiscs deleted by hand
    MaxStops,    \* bound: orderly restarts or exits
    MaxCrashes   \* bound: kills of the panel

ASSUME FiringsProper == NoFiring \notin Firings
ASSUME IfacesProper == NoIface \notin Ifaces
ASSUME UnlimitedNat == Unlimited \in Nat
ASSUME EntriesTyped ==
    \A E \in EntrySets : IsFiniteSet(E) /\ \A e \in E : e.port \in Int /\ e.rate \in Int

VARIABLES
    db,            \* the enabled inbounds with a limit
    route,         \* the interface /proc/net/route names
    root,          \* kernel: "os" (the system's own qdisc) or "htb" (ours)
    classes,       \* kernel: [class, rate] under the root, per interface
    filters,       \* kernel: [handle, port, class], per interface
    setupDone, applied, appliedIface,  \* the package's variables
    mu,            \* holder of the package's mutex
    pc,            \* where each firing is
    snap,          \* the entries a firing collected
    iface,         \* the holder's iface
    left,          \* rates or ports the holder has still to send
    life,          \* "up", "cleared" (Clear ran), "down" (cron stopped), "exited"
    tampered,      \* history: interfaces changed by hand since our last root
    edits, fails, routes, human, stops, crashes  \* counters for the bounds

kernel == <<root, classes, filters>>
memory == <<setupDone, applied, appliedIface>>
counters == <<edits, fails, routes, human, stops, crashes>>
vars == <<db, route, root, classes, filters, setupDone, applied, appliedIface, mu, pc,
          snap, iface, left, life, tampered, edits, fails, routes, human, stops, crashes>>

Phases == {"idle", "lock", "root", "default", "classes", "flush", "filters"}

NoPlan == Plan({})
DefaultClass == [class |-> DefaultClassId, rate |-> Unlimited]

\* The filters applyFilters adds for a plan: handles count up from 1 with the port.
RulePorts(rules) == {r.port : r \in rules}
FilterOf(rules, r) ==
    [handle |-> Rank(r.port, RulePorts(rules)) + 1, port |-> r.port, class |-> r.class]
FiltersOf(rules) == {FilterOf(rules, r) : r \in rules}

\* The plan is in force on an interface: every class at its rate, no class
\* number at two rates, and exactly the plan's filters.
Installed(i, plan) ==
    /\ root[i] = "htb"
    /\ plan.classes \cup {DefaultClass} \subseteq classes[i]
    /\ \A a, b \in classes[i] : a.class = b.class => a = b
    /\ filters[i] = FiltersOf(plan.rules)

-------------------------------------------------------------------------------
Init ==
    /\ db \in EntrySets
    /\ route \in Ifaces
    /\ root = [i \in Ifaces |-> "os"]
    /\ classes = [i \in Ifaces |-> {}]
    /\ filters = [i \in Ifaces |-> {}]
    /\ setupDone = FALSE /\ applied = NoPlan /\ appliedIface = NoIface
    /\ mu = NoFiring
    /\ pc = [t \in Firings |-> "idle"]
    /\ snap = [t \in Firings |-> {}]
    /\ iface = NoIface /\ left = {}
    /\ life = "up" /\ tampered = {}
    /\ edits = 0 /\ fails = 0 /\ routes = 0 /\ human = 0 /\ stops = 0 /\ crashes = 0

(* SpeedLimitJob.Run: collectEntries, then Sync. *)

Collect(t) ==
    /\ life \in {"up", "cleared"} /\ pc[t] = "idle"
    /\ snap' = [snap EXCEPT ![t] = db]
    /\ pc' = [pc EXCEPT ![t] = "lock"]
    /\ UNCHANGED <<db, route, kernel, memory, mu, iface, left, life, tampered, counters>>

\* Sync is over for t: unlock, and forget its locals.
Leave(t) ==
    /\ mu' = NoFiring
    /\ pc' = [pc EXCEPT ![t] = "idle"]
    /\ snap' = [snap EXCEPT ![t] = {}]
    /\ iface' = NoIface /\ left' = {}

\* Mutant of Forget: the interface is not reset.
MutantForgetFlag == setupDone' = FALSE /\ applied' = NoPlan /\ UNCHANGED appliedIface

Forget == setupDone' = FALSE /\ applied' = NoPlan /\ appliedIface' = NoIface

\* tc qdisc del dev i root; its failure is ignored.
Teardown(i) ==
    /\ i \in Ifaces
    /\ \/ /\ root' = [root EXCEPT ![i] = "os"]
          /\ classes' = [classes EXCEPT ![i] = {}]
          /\ filters' = [filters EXCEPT ![i] = {}]
          /\ UNCHANGED fails
       \/ /\ fails < MaxFails /\ fails' = fails + 1
          /\ UNCHANGED kernel

CanLock(t) == pc[t] = "lock" /\ mu = NoFiring
PlanOf(t) == Plan(snap[t])

\* Nothing to limit and nothing of ours installed.
SyncNothing(t) ==
    /\ CanLock(t) /\ Empty(PlanOf(t)) /\ ~setupDone
    /\ Leave(t)
    /\ UNCHANGED <<db, route, kernel, memory, life, tampered, counters>>

\* The last limit is gone.
SyncTeardown(t) ==
    /\ CanLock(t) /\ Empty(PlanOf(t)) /\ setupDone
    /\ Teardown(appliedIface)
    /\ Forget
    /\ Leave(t)
    /\ UNCHANGED <<db, route, life, tampered, edits, routes, human, stops, crashes>>

\* There is no default route: an error, and nothing changes.
SyncNoRoute(t) ==
    /\ CanLock(t) /\ ~Empty(PlanOf(t)) /\ route = NoIface
    /\ Leave(t)
    /\ UNCHANGED <<db, route, kernel, memory, life, tampered, counters>>

\* Mutant of NeedsSetup: a new default interface is not noticed.
MutantIgnoreIface(plan) == ~setupDone \/ ~SameRates(applied, plan)
NeedsSetup(plan) == ~setupDone \/ appliedIface # route \/ ~SameRates(applied, plan)

\* "Nothing changed": no command at all.
SyncSame(t) ==
    /\ CanLock(t) /\ ~Empty(PlanOf(t)) /\ route # NoIface
    /\ ~NeedsSetup(PlanOf(t)) /\ SameRules(applied, PlanOf(t))
    /\ Leave(t)
    /\ UNCHANGED <<db, route, kernel, memory, life, tampered, counters>>

SyncStart(t) ==
    /\ CanLock(t) /\ ~Empty(PlanOf(t)) /\ route # NoIface
    /\ NeedsSetup(PlanOf(t)) \/ ~SameRules(applied, PlanOf(t))
    /\ mu' = t
    /\ iface' = route
    /\ pc' = [pc EXCEPT ![t] = IF NeedsSetup(PlanOf(t)) THEN "root" ELSE "flush"]
    /\ UNCHANGED <<db, route, kernel, memory, snap, left, life, tampered, counters>>

(* setup: root qdisc, default class, one class per rate in ascending order. *)

\* tc qdisc replace ... root handle 1: htb takes the place of the system's qdisc.
\* Where 1: is an htb already it asks the kernel to change it, which htb cannot.
TcRoot(t) ==
    /\ pc[t] = "root" /\ root[iface] # "htb"
    /\ root' = [root EXCEPT ![iface] = "htb"]
    /\ classes' = [classes EXCEPT ![iface] = {}]
    /\ filters' = [filters EXCEPT ![iface] = {}]
    /\ tampered' = tampered \ {iface}
    /\ pc' = [pc EXCEPT ![t] = "default"]
    /\ UNCHANGED <<db, route, memory, mu, snap, iface, left, life, counters>>

\* tc class replace.
WithClass(i, c) == {d \in classes[i] : d.class # c.class} \cup {c}

TcDefault(t) ==
    /\ pc[t] = "default" /\ root[iface] = "htb"
    /\ classes' = [classes EXCEPT ![iface] = WithClass(iface, DefaultClass)]
    /\ left' = PlanOf(t).rates
    /\ pc' = [pc EXCEPT ![t] = "classes"]
    /\ UNCHANGED <<db, route, root, filters, memory, mu, snap, iface, life, tampered, counters>>

TcClass(t) ==
    /\ pc[t] = "classes" /\ left # {} /\ root[iface] = "htb"
    /\ LET r == Least(left)
           c == [class |-> ClassOfRate(snap[t], r), rate |-> r]
       IN  /\ classes' = [classes EXCEPT ![iface] = WithClass(iface, c)]
           /\ left' = left \ {r}
    /\ UNCHANGED <<db, route, root, filters, memory, mu, pc, snap, iface, life, tampered, counters>>

SetupDone(t) ==
    /\ pc[t] = "classes" /\ left = {}
    /\ pc' = [pc EXCEPT ![t] = "flush"]
    /\ UNCHANGED <<db, route, kernel, memory, mu, snap, iface, left, life, tampered, counters>>

(* applyFilters: drop our preference's filters, then add one per port. *)

\* tc filter del; its failure is ignored.
TcFlush(t) ==
    /\ pc[t] = "flush"
    /\ \/ filters' = [filters EXCEPT ![iface] = {}] /\ UNCHANGED fails
       \/ fails < MaxFails /\ fails' = fails + 1 /\ UNCHANGED filters
    /\ left' = RulePorts(PlanOf(t).rules)
    /\ pc' = [pc EXCEPT ![t] = "filters"]
    /\ UNCHANGED <<db, route, root, classes, memory, mu, snap, iface, life, tampered,
                   edits, routes, human, stops, crashes>>

NextFilter(t) ==
    FilterOf(PlanOf(t).rules, CHOOSE r \in PlanOf(t).rules : r.port = Least(left))

HandleTaken(i, f) == \E g \in filters[i] : g.handle = f.handle

TcFilter(t) ==
    /\ pc[t] = "filters" /\ left # {} /\ root[iface] = "htb"
    /\ ~HandleTaken(iface, NextFilter(t))
    /\ filters' = [filters EXCEPT ![iface] = @ \cup {NextFilter(t)}]
    /\ left' = left \ {Least(left)}
    /\ UNCHANGED <<db, route, root, classes, memory, mu, pc, snap, iface, life, tampered, counters>>

SyncDone(t) ==
    /\ pc[t] = "filters" /\ left = {}
    /\ setupDone' = TRUE /\ applied' = PlanOf(t) /\ appliedIface' = iface
    /\ Leave(t)
    /\ UNCHANGED <<db, route, kernel, life, tampered, counters>>

\* The command t is about to send cannot succeed.
Refused(t) ==
    \/ pc[t] = "root" /\ root[iface] = "htb"
    \/ pc[t] \in {"default", "classes"} /\ root[iface] # "htb"
    \/ pc[t] = "filters" /\ left # {} /\ (root[iface] # "htb" \/ HandleTaken(iface, NextFilter(t)))

\* Mutant of TcFails: the error path keeps the old bookkeeping.
MutantKeepMemory(t) ==
    /\ \/ pc[t] = "root" \/ pc[t] = "default"
       \/ pc[t] \in {"classes", "filters"} /\ left # {}
    /\ \/ Refused(t) /\ UNCHANGED fails
       \/ fails < MaxFails /\ fails' = fails + 1
    /\ Leave(t)
    /\ UNCHANGED <<db, route, kernel, memory, life, tampered, edits, routes, human, stops, crashes>>

\* A command of setup or applyFilters failed: Sync forgets what it applied.
TcFails(t) ==
    /\ \/ pc[t] = "root" \/ pc[t] = "default"
       \/ pc[t] \in {"classes", "filters"} /\ left # {}
    /\ \/ Refused(t) /\ UNCHANGED fails
       \/ fails < MaxFails /\ fails' = fails + 1
    /\ Forget
    /\ Leave(t)
    /\ UNCHANGED <<db, route, kernel, life, tampered, edits, routes, human, stops, crashes>>

SyncLocked(t) ==
    SyncNothing(t) \/ SyncTeardown(t) \/ SyncNoRoute(t) \/ SyncSame(t) \/ SyncStart(t)

TcSteps(t) ==
    \/ TcRoot(t) \/ TcDefault(t) \/ TcClass(t) \/ SetupDone(t)
    \/ TcFlush(t) \/ TcFilter(t) \/ SyncDone(t) \/ TcFails(t)

-------------------------------------------------------------------------------
(* The panel's life: web.go Server.Stop, main.go's signal loop. *)

\* limit.Clear.
Clear ==
    /\ life = "up" /\ stops < MaxStops /\ mu = NoFiring
    /\ stops' = stops + 1
    /\ life' = "cleared"
    /\ \/ /\ ~setupDone
          /\ UNCHANGED <<kernel, memory, fails>>
       \/ setupDone /\ Teardown(appliedIface) /\ Forget
    /\ UNCHANGED <<db, route, mu, pc, snap, iface, left, tampered, edits, routes, human, crashes>>

\* cron.Stop does not wait for firings that have started.
CronStop ==
    /\ life = "cleared"
    /\ life' = "down"
    /\ UNCHANGED <<db, route, kernel, memory, mu, pc, snap, iface, left, tampered, counters>>

\* SIGHUP: a new server in the same process.
ServerRestart ==
    /\ life = "down"
    /\ life' = "up"
    /\ UNCHANGED <<db, route, kernel, memory, mu, pc, snap, iface, left, tampered, counters>>

\* The process ends; the kernel keeps what it has.
ProcessEnds ==
    /\ Forget
    /\ mu' = NoFiring
    /\ pc' = [t \in Firings |-> "idle"]
    /\ snap' = [t \in Firings |-> {}]
    /\ iface' = NoIface /\ left' = {}
    /\ UNCHANGED <<db, route, kernel, tampered, edits, fails, routes, human, stops>>

\* SIGTERM, after Server.Stop.
Exit ==
    /\ life = "down" /\ life' = "exited"
    /\ ProcessEnds /\ UNCHANGED crashes

\* A kill; the init system starts the panel again.
Crash ==
    /\ crashes < MaxCrashes /\ life # "exited"
    /\ crashes' = crashes + 1 /\ life' = "up"
    /\ ProcessEnds

(* The surroundings. *)

EditLimits ==
    /\ edits < MaxEdits /\ edits' = edits + 1
    /\ db' \in EntrySets \ {db}
    /\ UNCHANGED <<route, kernel, memory, mu, pc, snap, iface, left, life, tampered,
                   fails, routes, human, stops, crashes>>

RouteChange ==
    /\ routes < MaxRoutes /\ routes' = routes + 1
    /\ route' \in (Ifaces \cup {NoIface}) \ {route}
    /\ UNCHANGED <<db, kernel, memory, mu, pc, snap, iface, left, life, tampered,
                   edits, fails, human, stops, crashes>>

HumanDeletes(i) ==
    /\ human < MaxHuman /\ human' = human + 1
    /\ root[i] = "htb"
    /\ root' = [root EXCEPT ![i] = "os"]
    /\ classes' = [classes EXCEPT ![i] = {}]
    /\ filters' = [filters EXCEPT ![i] = {}]
    /\ tampered' = tampered \cup {i}
    /\ UNCHANGED <<db, route, memory, mu, pc, snap, iface, left, life,
                   edits, fails, routes, stops, crashes>>

LifeNext == Clear \/ CronStop \/ ServerRestart \/ Exit \/ Crash
EnvNext == EditLimits \/ RouteChange \/ \E i \in Ifaces : HumanDeletes(i)

Next ==
    \/ \E t \in Firings : Collect(t) \/ SyncLocked(t) \/ TcSteps(t)
    \/ LifeNext
    \/ EnvNext

Spec == Init /\ [][Next]_vars

(* Firings keep coming while cron runs, and a firing that waits for the      *)
(* mutex gets it (sync.Mutex does not starve).  tc commands return.  Nothing *)
(* is assumed of edits, routes, people, stops or crashes.                    *)
Fairness ==
    \A t \in Firings : /\ WF_vars(Collect(t))
                       /\ SF_vars(SyncLocked(t))
                       /\ WF_vars(TcSteps(t))

FairSpec == Spec /\ Fairness

-------------------------------------------------------------------------------
(* Types of the package's variables, the kernel's state and the locals. *)
ClassRec == [class : Int, rate : Int]
FilterRec == [handle : Int, port : Int, class : Int]
Plans == {NoPlan} \cup {Plan(E) : E \in EntrySets}

TypeOK ==
    /\ db \in EntrySets
    /\ route \in Ifaces \cup {NoIface}
    /\ root \in [Ifaces -> {"os", "htb"}]
    /\ classes \in [Ifaces -> SUBSET ClassRec] /\ filters \in [Ifaces -> SUBSET FilterRec]
    /\ setupDone \in BOOLEAN
    /\ applied \in Plans
    /\ appliedIface \in Ifaces \cup {NoIface}
    /\ setupDone <=> appliedIface # NoIface
    /\ mu \in Firings \cup {NoFiring}
    /\ pc \in [Firings -> Phases]
    /\ snap \in [Firings -> EntrySets \cup {{}}]
    /\ iface \in Ifaces \cup {NoIface}
    /\ left \subseteq Int
    /\ life \in {"up", "cleared", "down", "exited"}
    /\ tampered \subseteq Ifaces

(* What the package believes is what the kernel does: whenever no Sync is    *)
(* running, the plan in "applied" is in force, class by class and filter by  *)
(* filter, on the interface it names -- after every failed command, change   *)
(* of route, change of rates and overlap of firings -- unless                *)
(* somebody changed that interface by hand (tc_linux.go:36-85).  The         *)
(* shortcut "nothing changed" rests on it.                                   *)
AppliedIsInForce ==
    mu = NoFiring /\ setupDone /\ appliedIface \notin tampered
        => Installed(appliedIface, applied)

(* What the database asks for, if it asks for anything, is in force on the   *)
(* default interface, unless somebody changed that interface by hand.        *)
Wanted == life = "up" /\ route # NoIface /\ route \notin tampered /\ ~Empty(Plan(db))
InForce == Installed(route, Plan(db))

\* Sync begins with nothing to its name on an interface that has our root.
Stuck == ~setupDone /\ root[route] = "htb"

(* Once edits, routes, failures and stops are over, either what is asked for *)
(* is in force for good, or Sync has forgotten what it installed there and   *)
(* is refused at every firing; never does it rest in between, on an          *)
(* interface it takes for another or with another plan than it believes in   *)
(* (tc_linux.go:36-85).  That the next firing puts everything right, as      *)
(* speed_limit_job.go:15 has it, is not so: see Stuck.                       *)
SettledOrStuck == <>[](Wanted => InForce \/ Stuck)

(* docs/SPEED_LIMIT.md:27 "when the panel exits normally, or all limits are  *)
(* cancelled, the rules the panel itself installed are removed".             *)
RulesCleanedUp ==
    <>[](life = "exited" \/ (life = "up" /\ Empty(Plan(db)))
            => \A i \in Ifaces : root[i] = "os")
===============================================================================
