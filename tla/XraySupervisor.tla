---------------------------- MODULE XraySupervisor ----------------------------
(***************************************************************************)
(* How the panel keeps one Xray-core process running with the saved        *)
(* configuration: web/service/xray.go (RestartXray, StopXray and the two   *)
(* atomic flags), xray/process.go (Start, Stop, IsRunning), the jobs of    *)
(* web/web.go:startTask that call them, and the administrator's handlers.  *)
(*                                                                         *)
(* Threads are goroutines: the boot goroutine, HTTP/bot handlers (Admins)  *)
(* and firings of the 1 s check job and of the 30 s restart job.  cron     *)
(* runs every firing in a goroutine of its own, so Checkers and Crons are  *)
(* sets: two firings of one job may overlap.  A step ends where another    *)
(* goroutine may see the difference: at lock, at the database read, at the *)
(* assignment of p, at unlock.                                             *)
(*                                                                         *)
(* A configuration is the set of the parts it contains: inbounds or        *)
(* clients, which handlers also give to the running Xray by API calls, and *)
(* parts of the template, which only a restart changes.                    *)
(***************************************************************************)
EXTENDS Naturals

CONSTANTS
    Parts,      \* what a configuration may contain
    Templates,  \* the parts that come from the template
    Handles,    \* identities of xray.Process values (recycled when dead)
    NoProc,     \* p = nil
    NoThread,   \* the mutex is free
    NoConfig,   \* a nil config
    NoPart,     \* no edit under way
    Boot,       \* the goroutine in startTask's RestartXray(true)
    Admins,     \* panel and bot handlers
    Checkers,   \* firings of CheckXrayRunningJob
    Crons,      \* firings of the 30 s restart job
    MaxOps,     \* bound: administrator operations
    MaxCrashes, \* bound: crashes of Xray and failed execs
    MaxErrs     \* bound: failed reads and writes of the database and of config.json

Configs == SUBSET Parts

Threads == {Boot} \cup Admins \cup Checkers \cup Crons

ASSUME ThreadsDistinct ==
    /\ Boot \notin Admins \cup Checkers \cup Crons
    /\ Admins \cap Checkers = {} /\ Admins \cap Crons = {}
    /\ Checkers \cap Crons = {}
    /\ NoThread \notin Threads
ASSUME HandlesProper == NoProc \notin Handles
ASSUME PartsProper == Templates \subseteq Parts /\ NoPart \notin Parts
ASSUME BoundsNat == MaxOps \in Nat /\ MaxCrashes \in Nat /\ MaxErrs \in Nat

VARIABLES
    db,         \* the configuration GetXrayConfig would build from the database
    need,       \* isNeedXrayRestart
    manual,     \* isManuallyStopped
    lock,       \* holder of the mutex "lock"
    p,          \* the global *xray.Process
    state,      \* operating-system state of each handle's process
    cfg,        \* the config a handle was created with (p.GetConfig())
    term,       \* handles whose process runs and was sent SIGTERM
    fin,        \* handles whose finalizer stopProcess has run
    pc,         \* where each thread is
    got,        \* the xrayConfig a RestartXray call has read
    checkTime,  \* CheckXrayRunningJob.checkTime
    live,       \* what the process of p runs: the config it was started with,
                \* and what API calls have made of it since
    part,       \* the part each handler is editing
    dropped,    \* history: a request's RestartXray ended in an error
    silent,     \* history: parts saved without a request since the last
                \* RestartXray read the database
    astray,     \* history: parts that may differ between Xray and the
                \* database with nobody told (see the actions that add to it)
    ops, crashes, errs  \* counters for the bounds

procVars == <<state, cfg, term, fin>>
edits == <<live, part, silent, astray>>
counters == <<ops, crashes, errs>>
vars == <<db, need, manual, lock, p, state, cfg, term, fin, pc, got,
          checkTime, live, part, dropped, silent, astray, ops, crashes, errs>>

ProcState == {"starting", "up", "serving", "exited"}
PC == {"idle", "lock", "config", "decide", "start", "checked",
       "stop", "updateStop", "download", "applied", "failed", "saved"}

-------------------------------------------------------------------------------
(* What the code asks of a process. *)

\* cmd.Process is set and ProcessState is nil: false until the goroutine of
\* Start has executed the binary, true until Wait has returned.
IsRunning(h) == h # NoProc /\ state[h] \in {"up", "serving"}

\* Handlers and startTask call RestartXray(true), the jobs RestartXray(false).
IsForce(t) == t \in Admins \cup {Boot}

\* Mutant of DidXrayCrash: the negation of isManuallyStopped is lost.
MutantCrashTest == ~IsRunning(p) /\ manual

DidXrayCrash == ~IsRunning(p) /\ ~manual

\* Mutant of Signalled: no IsRunning check, not even for nil.
MutantSignalUnchecked(h) == term \cup {h}

\* Stop on a handle: SIGTERM if it runs, otherwise an error and no effect.
Signalled(h) == IF IsRunning(h) THEN term \cup {h} ELSE term

\* A handle NewProcess may use: dead, unreachable and finalized.
Free(h) == h # p /\ state[h] = "exited" /\ h \in fin

\* Where a thread goes when RestartXray returns.
Return(t) ==
    /\ lock' = NoThread
    /\ pc' = [pc EXCEPT ![t] = IF t \in Checkers THEN "checked" ELSE "idle"]
    /\ got' = [got EXCEPT ![t] = NoConfig]

-------------------------------------------------------------------------------
Init ==
    /\ db \in Configs
    /\ need = FALSE /\ manual = FALSE
    /\ lock = NoThread
    /\ p = NoProc
    /\ state = [h \in Handles |-> "exited"]
    /\ cfg = [h \in Handles |-> NoConfig]
    /\ term = {}
    /\ fin = Handles
    /\ pc = [t \in Threads |-> IF t = Boot THEN "lock" ELSE "idle"]
    /\ got = [t \in Threads |-> NoConfig]
    /\ checkTime = 0
    /\ live = {}
    /\ part = [t \in Admins |-> NoPart]
    /\ dropped = FALSE /\ silent = {} /\ astray = {}
    /\ ops = 0 /\ crashes = 0 /\ errs = 0

(* RestartXray(isForce), under lock. *)

\* Mutant of LockRestart: the mutex is not taken.
MutantNoLock(t) ==
    /\ pc[t] = "lock"
    /\ lock' = t
    /\ manual' = FALSE
    /\ pc' = [pc EXCEPT ![t] = "config"]
    /\ UNCHANGED <<db, need, p, procVars, got, checkTime, dropped, edits, counters>>

LockRestart(t) ==
    /\ pc[t] = "lock"
    /\ lock = NoThread
    /\ lock' = t
    /\ manual' = FALSE
    /\ pc' = [pc EXCEPT ![t] = "config"]
    /\ UNCHANGED <<db, need, p, procVars, got, checkTime, dropped, edits, counters>>

\* Mutant of ReadConfig: the running configuration serves unless a restart is
\* asked for, but the request that led here is cleared already.
MutantReadCached(t) ==
    /\ pc[t] = "config"
    /\ got' = [got EXCEPT ![t] = IF IsRunning(p) /\ ~need THEN cfg[p] ELSE db]
    /\ dropped' = FALSE /\ silent' = {}
    /\ pc' = [pc EXCEPT ![t] = "decide"]
    /\ UNCHANGED <<db, need, manual, lock, p, procVars, checkTime, live, part, astray, counters>>

ReadConfig(t) ==
    /\ pc[t] = "config"
    /\ got' = [got EXCEPT ![t] = db]
    /\ dropped' = FALSE /\ silent' = {}
    /\ pc' = [pc EXCEPT ![t] = "decide"]
    /\ UNCHANGED <<db, need, manual, lock, p, procVars, checkTime, live, part, astray, counters>>

\* GetXrayConfig fails: the error is returned and logged, nothing is retried.
ConfigError(t) ==
    /\ pc[t] = "config" /\ errs < MaxErrs
    /\ errs' = errs + 1
    /\ Return(t)
    /\ dropped' = (dropped \/ t \in Crons)
    /\ UNCHANGED <<db, need, manual, p, procVars, checkTime, edits, ops, crashes>>

\* Mutant of CanSkip: the configurations are not compared.
MutantSkipBlindly(t) == IsRunning(p) /\ ~IsForce(t)

CanSkip(t) ==
    IsRunning(p) /\ ~IsForce(t) /\ cfg[p] = got[t] /\ ~need

\* The parts in which two configurations differ.
Differ(c, d) == {x \in Parts : x \in c <=> x \notin d}

\* "It does not need to restart Xray": what API calls have made of the process
\* is not compared.
SkipRestart(t) ==
    /\ pc[t] = "decide" /\ CanSkip(t)
    /\ Return(t)
    /\ astray' = astray \cup (Differ(live, cfg[p]) \ silent)
    /\ UNCHANGED <<db, need, manual, p, procVars, checkTime, live, part, dropped, silent, counters>>

\* What was saved without a request after the configuration was read, and what
\* a handler has told the old process and not saved yet.
Overtaken == silent \cup {part[t] : t \in {u \in Admins : pc[u] = "applied"}}

\* Mutant of Swap: a new process is made without stopping the old one.
MutantSwapNoStop(t, h, st) ==
    /\ pc[t] = "decide" /\ ~CanSkip(t)
    /\ Free(h)
    /\ p' = h
    /\ state' = [state EXCEPT ![h] = st]
    /\ cfg' = [cfg EXCEPT ![h] = got[t]]
    /\ fin' = fin \ {h}
    /\ live' = got[t] /\ astray' = Overtaken
    /\ UNCHANGED <<db, need, manual, term, checkTime, part, dropped, silent, ops, crashes>>

\* p.Stop() when running (SIGTERM, no wait), then NewProcess.
Swap(t, h, st) ==
    /\ pc[t] = "decide" /\ ~CanSkip(t)
    /\ Free(h)
    /\ p' = h
    /\ state' = [state EXCEPT ![h] = st]
    /\ cfg' = [cfg EXCEPT ![h] = got[t]]
    /\ fin' = fin \ {h}
    /\ term' = Signalled(p)
    /\ live' = got[t] /\ astray' = Overtaken
    /\ UNCHANGED <<db, need, manual, checkTime, part, dropped, silent, ops, crashes>>

\* Start spawns the goroutine that runs the binary.
Replace(t) ==
    /\ \E h \in Handles : Swap(t, h, "starting")
    /\ pc' = [pc EXCEPT ![t] = "start"]
    /\ UNCHANGED <<lock, got, errs>>

\* Start cannot write config.json: p is set, nothing runs.
StartError(t) ==
    /\ errs < MaxErrs
    /\ errs' = errs + 1
    /\ \E h \in Handles : Swap(t, h, "exited")
    /\ Return(t)

\* Mutant of StartReturn: the request is cleared when the restart is done.
MutantClearAtEnd(t) ==
    /\ pc[t] = "start"
    /\ Return(t)
    /\ need' = FALSE
    /\ UNCHANGED <<db, manual, p, procVars, checkTime, dropped, edits, counters>>

\* refreshVersion and refreshAPIPort are done; the lock is released.
StartReturn(t) ==
    /\ pc[t] = "start"
    /\ Return(t)
    /\ UNCHANGED <<db, need, manual, p, procVars, checkTime, dropped, edits, counters>>

(* StopXray, one critical section; UpdateXray goes on after it, whatever it returned. *)
StopXray(t) ==
    /\ pc[t] \in {"stop", "updateStop"}
    /\ lock = NoThread
    /\ manual' = TRUE
    /\ term' = Signalled(p)
    /\ pc' = [pc EXCEPT ![t] = IF pc[t] = "stop" THEN "idle" ELSE "download"]
    /\ UNCHANGED <<db, need, lock, p, state, cfg, fin, got, checkTime, dropped, edits, counters>>

RestartSteps(t) ==
    \/ ReadConfig(t) \/ ConfigError(t) \/ SkipRestart(t)
    \/ Replace(t) \/ StartError(t) \/ StartReturn(t)

-------------------------------------------------------------------------------
(* The administrator. *)

\* RestartXrayService, StopXrayService, UpdateXray.
AdminBegins(t, call) ==
    /\ pc[t] = "idle" /\ ops < MaxOps
    /\ ops' = ops + 1
    /\ pc' = [pc EXCEPT ![t] = call]
    /\ UNCHANGED <<db, need, manual, lock, p, procVars, got, checkTime, dropped, edits, crashes, errs>>

\* UpdateXray after StopXrayService: the download or the extraction fails and
\* Xray stays stopped, or it goes on to RestartXray(true).
UpdateFails(t) ==
    /\ pc[t] = "download"
    /\ pc' = [pc EXCEPT ![t] = "idle"]
    /\ UNCHANGED <<db, need, manual, lock, p, procVars, got, checkTime, dropped, edits, counters>>

UpdateRestarts(t) ==
    /\ pc[t] = "download"
    /\ pc' = [pc EXCEPT ![t] = "lock"]
    /\ UNCHANGED <<db, need, manual, lock, p, procVars, got, checkTime, dropped, edits, counters>>

(* Handlers that edit one part: an API call to whatever Xray holds the api   *)
(* port, then the database, then a request, but only if the call failed      *)
(* (AddInbound, UpdateInbound, AddInboundClient, ...).  Two handlers are not *)
(* at the same part at once: what comes of that is TrafficLedger's subject.  *)

With(S, x, present) == IF present THEN S \cup {x} ELSE S \ {x}

BeginsEdit(t, x) ==
    /\ pc[t] = "idle" /\ ops < MaxOps
    /\ \A u \in Admins : part[u] # x
    /\ ops' = ops + 1
    /\ part' = [part EXCEPT ![t] = x]

\* The call succeeds: on the process of p, or on an old one that still serves
\* while the new one starts, and then the edit has gone astray.
CallXray(t, x) ==
    /\ BeginsEdit(t, x) /\ x \in Parts \ Templates
    /\ pc' = [pc EXCEPT ![t] = "applied"]
    /\ \/ /\ p # NoProc /\ state[p] = "serving"
          /\ live' = With(live, x, x \notin db)
          /\ astray' = astray \ {x}
       \/ /\ \E h \in Handles \ {p} : state[h] = "serving"
          /\ astray' = astray \cup {x}
          /\ UNCHANGED live
    /\ UNCHANGED <<db, need, manual, lock, p, procVars, got, checkTime, dropped, silent, crashes, errs>>

\* The call fails, or the handler makes none (resetAllTraffics).
CallFails(t, x) ==
    /\ BeginsEdit(t, x) /\ x \in Parts \ Templates
    /\ pc' = [pc EXCEPT ![t] = "failed"]
    /\ UNCHANGED <<db, need, manual, lock, p, procVars, got, checkTime, live, dropped, silent, astray,
                   crashes, errs>>

\* The handler's transaction, after which it asks for a restart or does not.
Commit(t, asks) ==
    /\ db' = With(db, part[t], part[t] \notin db)
    /\ part' = [part EXCEPT ![t] = NoPart]
    /\ pc' = [pc EXCEPT ![t] = IF asks THEN "saved" ELSE "idle"]
    /\ UNCHANGED <<need, manual, lock, p, procVars, got, checkTime, live, dropped, counters>>

\* needRestart is false: Xray has the edit already, it seems.
SaveApplied(t) ==
    /\ pc[t] = "applied"
    /\ Commit(t, FALSE)
    /\ silent' = silent \cup {part[t]}
    /\ UNCHANGED astray

\* Mutant of SaveFailed: the result of the call is ignored.
MutantSaveFailed(t) ==
    /\ pc[t] = "failed"
    /\ Commit(t, FALSE)
    /\ silent' = silent \ {part[t]} /\ astray' = astray \ {part[t]}

SaveFailed(t) ==
    /\ pc[t] = "failed"
    /\ Commit(t, TRUE)
    /\ silent' = silent \ {part[t]} /\ astray' = astray \ {part[t]}

\* UpdateInbound switches an inbound off: a failed removal is ignored.
SaveSwitchedOff(t) ==
    /\ pc[t] = "failed" /\ part[t] \in db
    /\ Commit(t, FALSE)
    /\ silent' = silent \cup {part[t]} /\ astray' = astray \cup {part[t]}

\* The transaction fails: the handler returns the error and asks for nothing,
\* also when Xray has taken the edit.
SaveError(t) ==
    /\ pc[t] \in {"applied", "failed"} /\ errs < MaxErrs
    /\ errs' = errs + 1
    /\ part' = [part EXCEPT ![t] = NoPart]
    /\ pc' = [pc EXCEPT ![t] = "idle"]
    /\ astray' = IF pc[t] = "applied" THEN astray \cup {part[t]} ELSE astray
    /\ UNCHANGED <<db, need, manual, lock, p, procVars, got, checkTime, live, dropped, silent, ops, crashes>>

\* SaveXraySetting never asks: a part of the template is astray from the start.
SaveTemplate(t, x) ==
    /\ pc[t] = "idle" /\ ops < MaxOps
    /\ x \in Templates
    /\ ops' = ops + 1
    /\ db' = With(db, x, x \notin db)
    /\ silent' = silent \cup {x} /\ astray' = astray \cup {x}
    /\ UNCHANGED <<need, manual, lock, p, procVars, pc, got, checkTime, live, part, dropped, crashes, errs>>

SetToNeedRestart(t) ==
    /\ pc[t] = "saved"
    /\ need' = TRUE
    /\ pc' = [pc EXCEPT ![t] = "idle"]
    /\ UNCHANGED <<db, manual, lock, p, procVars, got, checkTime, dropped, edits, counters>>

EditSteps(t) ==
    \/ SaveApplied(t) \/ SaveFailed(t) \/ SaveSwitchedOff(t) \/ SaveError(t)
    \/ SetToNeedRestart(t)

(* The jobs; startTask adds them after its own RestartXray(true) returned. *)

JobsAdded == pc[Boot] = "idle"

CheckFiring(t) ==
    /\ JobsAdded /\ pc[t] = "idle"
    /\ checkTime' = IF DidXrayCrash THEN checkTime + 1 ELSE 0
    /\ pc' = [pc EXCEPT ![t] = IF checkTime' > 1 THEN "lock" ELSE "idle"]
    /\ UNCHANGED <<db, need, manual, lock, p, procVars, got, dropped, edits, counters>>

CheckDone(t) ==
    /\ pc[t] = "checked"
    /\ checkTime' = 0
    /\ pc' = [pc EXCEPT ![t] = "idle"]
    /\ UNCHANGED <<db, need, manual, lock, p, procVars, got, dropped, edits, counters>>

\* IsNeedRestartAndSetFalse succeeded: compare-and-swap true -> false.
CronFiring(t) ==
    /\ JobsAdded /\ pc[t] = "idle"
    /\ need
    /\ need' = FALSE
    /\ pc' = [pc EXCEPT ![t] = "lock"]
    /\ UNCHANGED <<db, manual, lock, p, procVars, got, checkTime, dropped, edits, counters>>

-------------------------------------------------------------------------------
(* Xray-core and the Go runtime. *)

\* Ended processes have no signal pending.
ProcStep(h, from, to) ==
    /\ state[h] \in from
    /\ state' = [state EXCEPT ![h] = to]
    /\ term' = IF to = "exited" THEN term \ {h} ELSE term
    /\ UNCHANGED <<db, need, manual, lock, p, cfg, fin, pc, got,
                   checkTime, dropped, edits, ops, errs>>

\* The goroutine of Start runs cmd.Run at a time of the scheduler's choosing.
Exec(h) == ProcStep(h, {"starting"}, "up") /\ UNCHANGED crashes

\* The binary cannot be executed, or Xray dies on its own.
Crash(h) ==
    /\ crashes < MaxCrashes /\ h \notin term
    /\ crashes' = crashes + 1
    /\ ProcStep(h, {"starting", "up", "serving"}, "exited")

OtherServes(h) == \E g \in Handles \ {h} : state[g] = "serving"

\* Every configuration listens on the api port: a second Xray cannot bind it
\* and exits.
Bind(h) == ~OtherServes(h) /\ ProcStep(h, {"up"}, "serving") /\ UNCHANGED crashes
BindFails(h) == OtherServes(h) /\ ProcStep(h, {"up"}, "exited") /\ UNCHANGED crashes

\* A process that got SIGTERM exits in its own time.
Exit(h) == h \in term /\ ProcStep(h, {"up", "serving"}, "exited") /\ UNCHANGED crashes

\* Mutant of Finalize: the finalizer does not stop the process.
MutantFinalizeNoStop(h) ==
    /\ h # p /\ h \notin fin
    /\ fin' = fin \cup {h}
    /\ cfg' = [cfg EXCEPT ![h] = NoConfig]
    /\ UNCHANGED <<db, need, manual, lock, p, state, term, pc, got,
                   checkTime, dropped, edits, counters>>

\* runtime.SetFinalizer(p, stopProcess): p.Stop() on an unreachable handle,
\* an error and nothing more when it is not running yet.
Finalize(h) ==
    /\ h # p /\ h \notin fin
    /\ fin' = fin \cup {h}
    /\ term' = Signalled(h)
    /\ cfg' = [cfg EXCEPT ![h] = NoConfig]
    /\ UNCHANGED <<db, need, manual, lock, p, state, pc, got,
                   checkTime, dropped, edits, counters>>

Runs(h) == Exec(h) \/ Bind(h) \/ BindFails(h) \/ Exit(h)

ProcNext(h) == Runs(h) \/ Crash(h) \/ Finalize(h)

AdminNext(t) ==
    \/ \E call \in {"lock", "stop", "updateStop"} : AdminBegins(t, call)
    \/ \E x \in Parts : CallXray(t, x) \/ CallFails(t, x) \/ SaveTemplate(t, x)
    \/ UpdateFails(t) \/ UpdateRestarts(t) \/ EditSteps(t)

Next ==
    \/ \E t \in Threads : LockRestart(t) \/ StopXray(t) \/ RestartSteps(t)
    \/ \E t \in Admins : AdminNext(t)
    \/ \E t \in Checkers : CheckFiring(t) \/ CheckDone(t)
    \/ \E t \in Crons : CronFiring(t)
    \/ \E h \in Handles : ProcNext(h)

Spec == Init /\ [][Next]_vars

(* Fairness.  Goroutines that can run do run; sync.Mutex hands the lock to   *)
(* a waiter that has starved for 1 ms, hence strong fairness for the two     *)
(* steps that take it.  The cron library keeps firing both jobs.  Processes  *)
(* are scheduled, obey SIGTERM, and the Go runtime collects garbage at least *)
(* every two minutes.  The administrator need not do anything, and nothing   *)
(* ever has to crash.                                                        *)
Fairness ==
    /\ \A t \in Threads : SF_vars(LockRestart(t)) /\ WF_vars(RestartSteps(t))
    /\ \A t \in Admins : /\ SF_vars(StopXray(t))
                         /\ WF_vars(UpdateFails(t) \/ UpdateRestarts(t) \/ EditSteps(t))
    /\ \A t \in Checkers : WF_vars(CheckFiring(t) \/ CheckDone(t))
    /\ \A t \in Crons : WF_vars(CronFiring(t))
    /\ \A h \in Handles : WF_vars(Runs(h)) /\ WF_vars(Finalize(h))

(* The check job counts a process as down until its goroutine has executed   *)
(* the binary.  A goroutine waits far less than the second between two       *)
(* firings, so when progress is claimed no firing finds one still waiting;   *)
(* without this the job could replace every process before it got to run.    *)
ExecBeforeNextFiring ==
    checkTime' > checkTime => p = NoProc \/ state[p] # "starting"

TimelySpec == Init /\ [][Next /\ ExecBeforeNextFiring]_vars /\ Fairness

-------------------------------------------------------------------------------
(* Types of the variables the code and the model keep. *)
TypeOK ==
    /\ db \in Configs
    /\ need \in BOOLEAN /\ manual \in BOOLEAN /\ dropped \in BOOLEAN
    /\ lock \in Threads \cup {NoThread}
    /\ p \in Handles \cup {NoProc}
    /\ state \in [Handles -> ProcState]
    /\ cfg \in [Handles -> Configs \cup {NoConfig}]
    /\ term \subseteq Handles /\ fin \subseteq Handles
    /\ pc \in [Threads -> PC]
    /\ got \in [Threads -> Configs \cup {NoConfig}]
    /\ \A t \in Threads : pc[t] = "decide" => got[t] \in Configs
    /\ checkTime \in Nat
    /\ live \in Configs /\ silent \in Configs /\ astray \in Configs
    /\ part \in [Admins -> (Parts \ Templates) \cup {NoPart}]
    /\ \A t \in Admins : part[t] # NoPart <=> pc[t] \in {"applied", "failed"}
    /\ ops \in Nat /\ crashes \in Nat /\ errs \in Nat

\* p is up or on its way up and has not been told to stop.
Kept == p # NoProc /\ state[p] # "exited" /\ p \notin term

\* A restart that has not read the database yet is asked for: the flag is set,
\* or about to be, or a firing has taken it.
RequestAlive ==
    \/ need
    \/ \E t \in Admins : pc[t] = "saved"
    \/ \E t \in Crons : pc[t] \in {"lock", "config"}

Agree(x) == x \in live <=> x \in db

\* Parts a handler has told Xray and not saved yet.
InFlight == {part[t] : t \in {u \in Admins : pc[u] = "applied"}}

\* Somebody is bound to compare the running configuration with db again, or to
\* install what db says of x.
RestartPending(x) ==
    RequestAlive \/ \E t \in Threads : pc[t] = "decide" /\ (x \in got[t] <=> x \in db)

(* No edit is forgotten but in the ways listed under astray: whenever the     *)
(* process the panel keeps and the database differ in a part, a restart       *)
(* request is still set, its editor is about to set it, or a RestartXray that *)
(* has seen the edit is under way -- or the error of one was only logged      *)
(* (dropped).  This is what clearing the flag before reading the database,    *)
(* saving before setting it, and asking for a restart when an API call fails  *)
(* are for (web.go:302-309, xray.go:315-370, controller/inbound.go:116).      *)
NoLostEdit ==
    Kept => \A x \in Parts \ (astray \cup InFlight) : Agree(x) \/ RestartPending(x) \/ dropped

(* At most one goroutine is between lock.Lock and its unlock, and the mutex  *)
(* names it: RestartXray's read-decide-replace is never interleaved with     *)
(* another's (xray.go:316-317, 354-355).                                     *)
Inside(t) == pc[t] \in {"config", "decide", "start"}
OneRestartAtATime == \A t \in Threads : Inside(t) => lock = t

\* Why NoLostEdit is inductive.  Whoever is about to act on a configuration that
\* is no longer the saved one leaves a live request behind, or the edit was one
\* that asks for nothing;
StaleReadIsCovered ==
    \A t \in Threads : pc[t] = "decide" =>
        \A x \in Parts : (x \in got[t] <=> x \in db) \/ RequestAlive \/ x \in silent

\* the latter, and the edits under way, have reached the process of p, and stay
\* in it until it is replaced.
SilentIsLive == Kept => \A x \in silent \ (astray \cup InFlight) : Agree(x)
InFlightIsLive ==
    Kept => \A t \in Admins : pc[t] = "applied" /\ part[t] \notin astray => ~Agree(part[t])

\* The assumption made where handlers begin.
OneHandlerPerPart == \A t, u \in Admins : part[t] = part[u] => t = u \/ part[t] = NoPart

EditInv ==
    /\ OneRestartAtATime /\ OneHandlerPerPart
    /\ StaleReadIsCovered /\ SilentIsLive /\ InFlightIsLive /\ NoLostEdit

(* RestartXray never lets go of a running process it has not told to stop    *)
(* (xray.go:335-343).                                                        *)
ReplacedIsSignalled ==
    [][p' # p /\ IsRunning(p) => p \in term']_vars

(* What the panel as a whole promises about the process it keeps; runs is the *)
(* configuration it was started with.                                         *)
Supervised == INSTANCE Supervision WITH
    saved <- db,
    runs <- IF Kept THEN cfg[p] ELSE NoConfig,
    phase <- IF lock = NoThread THEN "closed" ELSE pc[lock],
    taken <- IF lock # NoThread /\ pc[lock] = "decide" THEN got[lock] ELSE NoConfig,
    due <- RequestAlive \/ dropped

(* Whoever restarts Xray, handler, job or both at once, the restarts happen   *)
(* one after another, each installs what was saved when it looked, and no     *)
(* edit that asks for a restart stops being due before one has looked at it   *)
(* (xray.go:315-370, web.go:302-309).                                         *)
KeepsOneXray == Supervised!Spec

(* Unless it was stopped by hand, Xray serves again after every crash, exec  *)
(* failure and overlap of an old and a new process: the check job recovers   *)
(* it (check_xray_running_job.go:18-32).                                     *)
Serving == \E h \in Handles : state[h] = "serving"
ServiceRestored == []<>(Serving \/ manual)

(* Once the administrator is done, the process the panel keeps comes to run   *)
(* every part as it is saved, by an API call or by a restart, but for those   *)
(* that went astray and unless a restart's error dropped the request          *)
(* (web.go:302-309, xray.go:335-343).                                         *)
EditsApplied == <>[](Kept => dropped \/ \A x \in Parts \ astray : Agree(x))

(* A replaced process goes away, through the SIGTERM of RestartXray or the    *)
(* one of its finalizer: all but one that was finalized before its goroutine *)
(* had executed the binary, which nobody signals (process.go:86-97).         *)
OldProcsDie ==
    \A h \in Handles : (h # p /\ IsRunning(h) /\ h \notin fin) ~> ~IsRunning(h)
===============================================================================
