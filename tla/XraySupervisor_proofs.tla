------------------------ MODULE XraySupervisor_proofs -------------------------
(***************************************************************************)
(* Proofs about XraySupervisor, for every set of threads, handles and      *)
(* configurations and without the bounds' help: the types, the mutual      *)
(* exclusion of RestartXray's critical sections, which saved edits are     *)
(* forgotten and that no other is, and that the whole implements           *)
(* Supervision.                                                            *)
(***************************************************************************)
EXTENDS XraySupervisor, TLAPS

-------------------------------------------------------------------------------
(* The variables keep their types (the declarations in xray.go:16-22,        *)
(* process.go:99-112 and check_xray_running_job.go:8-12).                    *)
THEOREM TypeCorrect == Spec => []TypeOK
<1>1. Init => TypeOK
  <2> SUFFICES ASSUME Init PROVE TypeOK
    OBVIOUS
  <2>1. /\ pc \in [Threads -> PC] /\ got \in [Threads -> Configs \cup {NoConfig}]
        /\ part \in [Admins -> (Parts \ Templates) \cup {NoPart}]
        /\ \A t \in Admins : part[t] # NoPart <=> pc[t] \in {"applied", "failed"}
    BY ThreadsDistinct DEF Init, PC, Threads, ThreadsDistinct
  <2>2. state \in [Handles -> ProcState] /\ cfg \in [Handles -> Configs \cup {NoConfig}]
    BY DEF Init, ProcState
  <2>3. QED
    BY <2>1, <2>2 DEF Init, TypeOK, Configs
<1>2. TypeOK /\ [Next]_vars => TypeOK'
  <2> SUFFICES ASSUME TypeOK, [Next]_vars PROVE TypeOK'
    OBVIOUS
  <2>0. Admins \subseteq Threads /\ {} \in Configs
    BY DEF Threads, Configs
  <2> USE <2>0, ThreadsDistinct DEF TypeOK, PC, ProcState, procVars, edits, counters
  <2>1. CASE UNCHANGED vars
    BY <2>1 DEF vars
  <2>2. CASE Next
    <3>1. ASSUME NEW t \in Threads, LockRestart(t) PROVE TypeOK'
      BY <3>1 DEF LockRestart
    <3>2. ASSUME NEW t \in Threads, StopXray(t) PROVE TypeOK'
      BY <3>2 DEF StopXray, Signalled, IsRunning
    <3>3. ASSUME NEW t \in Threads, ReadConfig(t) PROVE TypeOK'
      BY <3>3 DEF ReadConfig
    <3>4. ASSUME NEW t \in Threads, ConfigError(t) PROVE TypeOK'
      BY <3>4 DEF ConfigError, Return
    <3>5. ASSUME NEW t \in Threads, SkipRestart(t) PROVE TypeOK'
      <4>1. astray' \in Configs
        BY <3>5 DEF SkipRestart, Differ, Configs
      <4> QED BY <3>5, <4>1 DEF SkipRestart, Return
    <3>6. ASSUME NEW t \in Threads, Replace(t) PROVE TypeOK'
      <4>1. got[t] \in Configs /\ Overtaken \in Configs
        BY <3>6 DEF Replace, Swap, Overtaken, Configs
      <4> QED BY <3>6, <4>1 DEF Replace, Swap, Signalled, IsRunning
    <3>7. ASSUME NEW t \in Threads, StartError(t) PROVE TypeOK'
      <4>1. got[t] \in Configs /\ Overtaken \in Configs
        BY <3>7 DEF StartError, Swap, Overtaken, Configs
      <4> QED BY <3>7, <4>1 DEF StartError, Swap, Return, Signalled, IsRunning
    <3>8. ASSUME NEW t \in Threads, StartReturn(t) PROVE TypeOK'
      BY <3>8 DEF StartReturn, Return
    <3>9. ASSUME NEW t \in Admins, AdminNext(t) PROVE TypeOK'
      <4> t \in Threads
        BY DEF Threads
      <4>1. ASSUME NEW call \in {"lock", "stop", "updateStop"}, AdminBegins(t, call)
            PROVE  TypeOK'
        BY <4>1, BoundsNat, t \in Threads DEF AdminBegins, BoundsNat
      <4>2. ASSUME NEW x \in Parts, CallXray(t, x) \/ CallFails(t, x) \/ SaveTemplate(t, x)
            PROVE  TypeOK'
        <5>1. astray' \in Configs /\ live' \in Configs /\ silent' \in Configs /\ db' \in Configs
          BY <4>2 DEF CallXray, CallFails, BeginsEdit, SaveTemplate, With, Configs
        <5> QED BY <4>2, <5>1, BoundsNat, PartsProper
                DEF CallXray, CallFails, BeginsEdit, SaveTemplate, BoundsNat, PartsProper
      <4>3. CASE UpdateFails(t) \/ UpdateRestarts(t) \/ SetToNeedRestart(t)
        BY <4>3 DEF UpdateFails, UpdateRestarts, SetToNeedRestart
      <4>4. CASE SaveApplied(t) \/ SaveFailed(t) \/ SaveSwitchedOff(t)
        <5>1. part[t] \in Parts
          BY <4>4, PartsProper DEF SaveApplied, SaveFailed, SaveSwitchedOff
        <5>2. astray' \in Configs /\ live' \in Configs /\ silent' \in Configs /\ db' \in Configs
          BY <4>4, <5>1 DEF SaveApplied, SaveFailed, SaveSwitchedOff, Commit, With, Configs
        <5> QED BY <4>4, <5>2 DEF SaveApplied, SaveFailed, SaveSwitchedOff, Commit
      <4>5. CASE SaveError(t)
        <5>1. astray' \in Configs
          BY <4>5, PartsProper DEF SaveError, Configs
        <5> QED BY <4>5, <5>1, BoundsNat DEF SaveError
      <4>6. QED
        BY <3>9, <4>1, <4>2, <4>3, <4>4, <4>5 DEF AdminNext, EditSteps
    <3>10. ASSUME NEW t \in Checkers, CheckFiring(t) \/ CheckDone(t) PROVE TypeOK'
      BY <3>10 DEF CheckFiring, CheckDone
    <3>11. ASSUME NEW t \in Crons, CronFiring(t) PROVE TypeOK'
      BY <3>11 DEF CronFiring
    <3>12. ASSUME NEW h \in Handles, ProcNext(h) PROVE TypeOK'
      BY <3>12 DEF ProcNext, Runs, Exec, Crash, Bind, BindFails, Exit, ProcStep, Finalize,
                  Signalled, IsRunning
    <3>13. QED
      BY <2>2, <3>1, <3>2, <3>3, <3>4, <3>5, <3>6, <3>7, <3>8, <3>9, <3>10,
         <3>11, <3>12 DEF Next, RestartSteps
  <2>3. QED
    BY <2>1, <2>2
<1>3. QED
  BY <1>1, <1>2, PTL DEF Spec

-------------------------------------------------------------------------------
(* Two goroutines are never both inside RestartXray's critical section       *)
(* (xray.go:316-317): the invariant every argument about p rests on.         *)
THEOREM MutualExclusion == Spec => []OneRestartAtATime
<1>1. Init => OneRestartAtATime
  BY DEF Init, OneRestartAtATime, Inside
<1>2. TypeOK /\ OneRestartAtATime /\ [Next]_vars => OneRestartAtATime'
  <2> SUFFICES ASSUME TypeOK, OneRestartAtATime, [Next]_vars,
                      NEW u \in Threads, Inside(u)'
               PROVE  lock' = u
    BY DEF OneRestartAtATime
  <2> USE DEF OneRestartAtATime, Inside, TypeOK
  <2>1. CASE UNCHANGED vars
    BY <2>1 DEF vars
  <2>2. ASSUME NEW t \in Threads, LockRestart(t) PROVE lock' = u
    BY <2>2, ThreadsDistinct DEF LockRestart, ThreadsDistinct
  <2>3. ASSUME NEW t \in Threads, ReadConfig(t) PROVE lock' = u
    BY <2>3 DEF ReadConfig
  <2>4. ASSUME NEW t \in Threads, ConfigError(t) \/ SkipRestart(t) \/ StartReturn(t)
        PROVE  lock' = u
    BY <2>4 DEF ConfigError, SkipRestart, StartReturn, Return
  <2>5. ASSUME NEW t \in Threads, Replace(t) \/ StartError(t) PROVE lock' = u
    BY <2>5 DEF Replace, StartError, Swap, Return
  <2>6. ASSUME NEW t \in Threads, StopXray(t) PROVE lock' = u
    BY <2>6 DEF StopXray
  <2>7. ASSUME NEW t \in Admins, AdminNext(t) PROVE lock' = u
    BY <2>7 DEF AdminNext, AdminBegins, CallXray, CallFails, BeginsEdit, SaveTemplate, EditSteps, SaveApplied, SaveFailed,
                SaveSwitchedOff, SaveError, Commit, UpdateFails, UpdateRestarts, SetToNeedRestart
  <2>8. ASSUME NEW t \in Checkers, CheckFiring(t) \/ CheckDone(t) PROVE lock' = u
    BY <2>8 DEF CheckFiring, CheckDone
  <2>9. ASSUME NEW t \in Crons, CronFiring(t) PROVE lock' = u
    BY <2>9 DEF CronFiring
  <2>10. ASSUME NEW h \in Handles, ProcNext(h) PROVE lock' = u
    BY <2>10 DEF ProcNext, Runs, Exec, Crash, Bind, BindFails, Exit, ProcStep, Finalize
  <2>11. QED
    BY <2>1, <2>2, <2>3, <2>4, <2>5, <2>6, <2>7, <2>8, <2>9, <2>10 DEF Next, RestartSteps
<1>3. QED
  BY <1>1, <1>2, TypeCorrect, PTL DEF Spec

-------------------------------------------------------------------------------
(* No edit is forgotten but those that went astray.                          *)
(*                                                                           *)
(* NoLostEdit alone is not inductive: a RestartXray that read the database   *)
(* before the edit installs the old configuration.  StaleReadIsCovered says  *)
(* the request it will then need is alive already -- nobody else can consume *)
(* one while this one holds the lock -- or the edit asks for nothing, and    *)
(* then SilentIsLive and InFlightIsLive say that the process has it.         *)

EditParts == StaleReadIsCovered /\ SilentIsLive /\ InFlightIsLive /\ NoLostEdit

(* Most steps neither edit, nor read, nor replace, and no request dies of    *)
(* them but in an error.                                                     *)
LEMMA EditsUntouched ==
    ASSUME EditParts, UNCHANGED <<db, p, live, silent, astray>>, Kept' => Kept, dropped => dropped',
           \A t \in Threads : (pc'[t] = "decide" <=> pc[t] = "decide")
                             /\ (pc[t] = "decide" => got'[t] = got[t]),
           \A t \in Admins : (pc'[t] = "applied" <=> pc[t] = "applied")
                            /\ (pc[t] = "applied" => part'[t] = part[t]),
           RequestAlive => RequestAlive' \/ (dropped' /\ \A t \in Threads : pc[t] # "decide")
    PROVE  EditParts'
<1>1. InFlight' = InFlight
  BY DEF InFlight
<1>2. \A x \in Parts : Agree(x)' <=> Agree(x)
  BY DEF Agree
<1>3. StaleReadIsCovered'
  BY DEF EditParts, StaleReadIsCovered
<1>4. SilentIsLive' /\ InFlightIsLive'
  BY <1>1 DEF EditParts, SilentIsLive, InFlightIsLive, Agree
<1>5. NoLostEdit'
  BY <1>1, <1>2 DEF EditParts, NoLostEdit, RestartPending
<1> QED BY <1>3, <1>4, <1>5 DEF EditParts

(* What a step of t makes of the requests is what it makes of the part of t.  *)
PartOf(t) == (t \in Admins /\ pc[t] = "saved") \/ (t \in Crons /\ pc[t] \in {"lock", "config"})

LEMMA Requesting ==
    ASSUME NEW t \in Threads, \A u \in Threads \ {t} : pc'[u] = pc[u], need' = need
    PROVE  /\ (PartOf(t)' => PartOf(t)) => (RequestAlive' => RequestAlive)
           /\ (PartOf(t) => PartOf(t)') => (RequestAlive => RequestAlive')
<1>1. \A u \in Threads \ {t} : PartOf(u)' <=> PartOf(u)
  BY DEF PartOf
<1>2. RequestAlive <=> need \/ \E u \in Threads : PartOf(u)
  BY DEF RequestAlive, PartOf, Threads
<1>3. RequestAlive' <=> need' \/ \E u \in Threads : PartOf(u)'
  BY DEF RequestAlive, PartOf, Threads
<1> QED BY <1>1, <1>2, <1>3

(* Steps of RestartXray.                                                     *)
LEMMA RestartKeepsEdits ==
    ASSUME TypeOK, TypeOK', OneRestartAtATime, EditParts, NEW t \in Threads, LockRestart(t) \/ RestartSteps(t)
    PROVE  EditParts'
<1> USE HandlesProper, ThreadsDistinct
<1>0. pc \in [Threads -> PC] /\ got \in [Threads -> Configs \cup {NoConfig}] /\ t # NoThread
  BY DEF TypeOK
<1>1. UNCHANGED <<need, db, part>> /\ \A u \in Threads \ {t} : pc'[u] = pc[u] /\ got'[u] = got[u]
  BY <1>0 DEF LockRestart, RestartSteps, ReadConfig, ConfigError, SkipRestart, Replace, StartError, StartReturn,
              Swap, Return, edits
<1>2. pc[t] \in {"config", "decide", "start"} => \A u \in Threads \ {t} : pc[u] # "decide"
  BY <1>0 DEF OneRestartAtATime, Inside
<1>3. CASE LockRestart(t)
  <2>1. pc[t] = "lock" /\ pc'[t] = "config" /\ UNCHANGED <<p, state, cfg, term, live, silent, astray, dropped, got>>
    BY <1>0, <1>3 DEF LockRestart, procVars, edits
  <2>2. RequestAlive => RequestAlive'
    BY <1>1, <2>1, Requesting DEF PartOf
  <2> QED BY <1>1, <2>1, <2>2, EditsUntouched DEF Kept, Threads
<1>4. CASE ReadConfig(t)
  <2>1. /\ pc[t] = "config" /\ pc'[t] = "decide" /\ got'[t] = db /\ silent' = {}
        /\ UNCHANGED <<p, state, cfg, term, live, astray>>
    BY <1>0, <1>4 DEF ReadConfig, procVars
  <2>2. StaleReadIsCovered'
    BY <1>1, <1>2, <2>1 DEF StaleReadIsCovered
  <2>3. SilentIsLive' /\ InFlightIsLive'
    BY <1>1, <2>1 DEF SilentIsLive, EditParts, InFlightIsLive, Kept, Agree, Threads
  <2>4. NoLostEdit'
    BY <1>1, <2>1 DEF NoLostEdit, RestartPending
  <2> QED BY <2>2, <2>3, <2>4 DEF EditParts
<1>5. CASE ConfigError(t)
  <2>1. /\ pc[t] = "config" /\ pc'[t] \in {"idle", "checked"} /\ dropped' = (dropped \/ t \in Crons)
        /\ UNCHANGED <<p, state, cfg, term, live, silent, astray>>
    BY <1>0, <1>5 DEF ConfigError, Return, procVars, edits
  <2>2. RequestAlive => RequestAlive' \/ (dropped' /\ \A u \in Threads : pc[u] # "decide")
    BY <1>1, <1>2, <2>1, Requesting DEF PartOf
  <2> QED BY <1>1, <1>2, <2>1, <2>2, EditsUntouched DEF Kept, Threads
<1>6. CASE SkipRestart(t)
  <2>1. /\ pc[t] = "decide" /\ pc'[t] \in {"idle", "checked"} /\ cfg[p] = got[t]
        /\ astray' = astray \cup (Differ(live, got[t]) \ silent)
        /\ UNCHANGED <<p, state, cfg, term, live, silent, dropped>>
    BY <1>0, <1>6 DEF SkipRestart, CanSkip, Return, procVars
  <2>2. RequestAlive => RequestAlive'
    BY <1>1, <2>1, Requesting DEF PartOf
  <2>3. InFlight' = InFlight /\ (Kept' <=> Kept)
    BY <1>1, <2>1 DEF InFlight, Kept, Threads
  <2>4. StaleReadIsCovered'
    BY <1>1, <1>2, <2>1 DEF StaleReadIsCovered
  <2>5. SilentIsLive'
    BY <1>1, <2>1, <2>3 DEF EditParts, SilentIsLive, Agree
  <2>6. InFlightIsLive'
    BY <1>1, <2>1, <2>3 DEF EditParts, InFlightIsLive, Agree, Threads
  <2>7. ASSUME Kept', NEW x \in Parts \ (astray' \cup InFlight') PROVE Agree(x)' \/ RestartPending(x)' \/ dropped'
    <3>1. (x \in live <=> x \in got[t]) \/ x \in silent
      BY <2>1, <2>7 DEF Differ
    <3>2. CASE x \in silent
      BY <1>1, <2>1, <2>3, <2>7, <3>2 DEF EditParts, SilentIsLive, Agree
    <3>3. CASE x \notin silent
      BY <1>1, <2>1, <2>2, <3>1, <3>3 DEF EditParts, StaleReadIsCovered, RestartPending, Agree
    <3> QED BY <3>2, <3>3
  <2>8. NoLostEdit'
    BY <2>7 DEF NoLostEdit
  <2> QED BY <2>4, <2>5, <2>6, <2>8 DEF EditParts
<1>7. CASE Replace(t) \/ StartError(t)
  <2>1. /\ pc[t] = "decide" /\ pc'[t] \in {"start", "idle", "checked"}
        /\ live' = got[t] /\ astray' = Overtaken /\ UNCHANGED <<silent, dropped>>
    BY <1>0, <1>7 DEF Replace, StartError, Swap, Return
  <2>2. RequestAlive => RequestAlive'
    BY <1>1, <2>1, Requesting DEF PartOf
  <2>3. InFlight' = InFlight /\ astray' = silent \cup InFlight
    BY <1>1, <2>1 DEF InFlight, Overtaken, Threads
  <2>4. StaleReadIsCovered' /\ SilentIsLive'
    BY <1>1, <1>2, <2>1, <2>3 DEF StaleReadIsCovered, SilentIsLive
  <2>5. InFlightIsLive'
    BY <2>3 DEF InFlightIsLive, InFlight
  <2>6. NoLostEdit'
    BY <1>1, <2>1, <2>2, <2>3 DEF NoLostEdit, EditParts, StaleReadIsCovered, RestartPending, Agree
  <2> QED BY <2>4, <2>5, <2>6 DEF EditParts
<1>8. CASE StartReturn(t)
  <2>1. /\ pc[t] = "start" /\ pc'[t] \in {"idle", "checked"}
        /\ UNCHANGED <<p, state, cfg, term, live, silent, astray, dropped>>
    BY <1>0, <1>8 DEF StartReturn, Return, procVars, edits
  <2>2. RequestAlive => RequestAlive'
    BY <1>1, <2>1, Requesting DEF PartOf
  <2> QED BY <1>1, <2>1, <2>2, EditsUntouched DEF Kept, Threads
<1> QED BY <1>3, <1>4, <1>5, <1>6, <1>7, <1>8 DEF RestartSteps

(* Steps of handlers that edit.                                              *)
LEMMA HandlersKeepEdits ==
    ASSUME TypeOK, TypeOK', OneHandlerPerPart, EditParts, NEW t \in Admins,
           (\E x \in Parts : CallXray(t, x) \/ CallFails(t, x) \/ SaveTemplate(t, x)) \/ EditSteps(t)
    PROVE  EditParts'
<1> USE ThreadsDistinct
<1>0. /\ t \in Threads /\ pc \in [Threads -> PC] /\ got \in [Threads -> Configs \cup {NoConfig}]
      /\ part \in [Admins -> (Parts \ Templates) \cup {NoPart}] /\ NoPart \notin Parts
      /\ Admins \subseteq Threads
  BY PartsProper DEF TypeOK, Threads
<1>1. UNCHANGED <<p, state, cfg, term, got, dropped>> /\ (Kept' <=> Kept)
  BY DEF CallXray, CallFails, BeginsEdit, SaveTemplate, EditSteps, SaveApplied, SaveFailed, SaveSwitchedOff, SaveError,
         SetToNeedRestart, Commit, procVars, counters, edits, Kept
<1>2. \A u \in Threads \ {t} : pc'[u] = pc[u]
  BY <1>0 DEF CallXray, CallFails, BeginsEdit, SaveTemplate, EditSteps, SaveApplied, SaveFailed, SaveSwitchedOff,
         SaveError, SetToNeedRestart, Commit
<1>3. pc[t] # "decide" /\ pc'[t] # "decide"
  BY <1>0 DEF CallXray, CallFails, BeginsEdit, SaveTemplate, EditSteps, SaveApplied, SaveFailed, SaveSwitchedOff,
         SaveError, SetToNeedRestart, Commit
<1>4. \A u \in Admins \ {t} : part'[u] = part[u]
  BY <1>0 DEF CallXray, CallFails, BeginsEdit, SaveTemplate, EditSteps, SaveApplied, SaveFailed, SaveSwitchedOff,
         SaveError, SetToNeedRestart, Commit, edits
<1>5. RequestAlive => RequestAlive'
  <2>1. CASE SetToNeedRestart(t)
    BY <2>1 DEF SetToNeedRestart, RequestAlive
  <2>2. CASE ~SetToNeedRestart(t)
    <3>1. need' = need /\ pc[t] # "saved"
      BY <2>2 DEF CallXray, CallFails, BeginsEdit, SaveTemplate, EditSteps, SaveApplied, SaveFailed, SaveSwitchedOff,
             SaveError, Commit
    <3> QED BY <1>0, <1>2, <3>1, Requesting DEF PartOf
  <2> QED BY <2>1, <2>2
<1>6. ASSUME NEW x \in Parts, CallXray(t, x) PROVE EditParts'
  <2>1. /\ pc'[t] = "applied" /\ part'[t] = x /\ pc[t] = "idle" /\ UNCHANGED <<db, silent>>
        /\ \A u \in Admins : part[u] # x
        /\ \/ live' = With(live, x, x \notin db) /\ astray' = astray \ {x}
           \/ live' = live /\ astray' = astray \cup {x}
    BY <1>0, <1>6 DEF CallXray, BeginsEdit
  <2>2. InFlight' = InFlight \cup {x}
    BY <1>0, <1>2, <1>4, <2>1 DEF InFlight
  <2>3. \A y \in Parts \ {x} : (Agree(y)' <=> Agree(y)) /\ (y \in astray' <=> y \in astray)
    BY <2>1 DEF Agree, With
  <2>4. StaleReadIsCovered'
    BY <1>1, <1>2, <1>3, <1>5, <2>1 DEF EditParts, StaleReadIsCovered
  <2>5. SilentIsLive'
    BY <1>1, <2>1, <2>2, <2>3 DEF EditParts, SilentIsLive, TypeOK, Configs
  <2>6. InFlightIsLive'
    <3> SUFFICES ASSUME Kept', NEW u \in Admins, pc'[u] = "applied", part'[u] \notin astray'
                 PROVE  ~Agree(part[u])'
      BY DEF InFlightIsLive
    <3>1. CASE u = t
      BY <2>1, <3>1 DEF With, Agree
    <3>2. CASE u # t
      <4>1. pc[u] = "applied" /\ part'[u] = part[u] /\ part[u] # x /\ part[u] \in Parts
        BY <1>0, <1>2, <1>4, <2>1, <3>2 DEF TypeOK
      <4>2. part[u] \notin astray /\ ~Agree(part[u])
        BY <1>1, <2>3, <4>1 DEF EditParts, InFlightIsLive
      <4> QED BY <2>1, <4>1, <4>2 DEF Agree, With
    <3> QED BY <3>1, <3>2
  <2>7. NoLostEdit'
    <3> SUFFICES ASSUME Kept', NEW y \in Parts \ (astray' \cup InFlight')
                 PROVE  Agree(y)' \/ RestartPending(y)' \/ dropped'
      BY DEF NoLostEdit
    <3>1. Agree(y) \/ RestartPending(y) \/ dropped
      BY <1>1, <2>2, <2>3 DEF EditParts, NoLostEdit
    <3>2. RestartPending(y) => RestartPending(y)'
      BY <1>1, <1>2, <1>3, <1>5, <2>1 DEF RestartPending
    <3> QED BY <1>1, <2>2, <2>3, <3>1, <3>2
  <2> QED BY <2>4, <2>5, <2>6, <2>7 DEF EditParts
<1>7. ASSUME NEW x \in Parts, CallFails(t, x) PROVE EditParts'
  <2>1. pc'[t] = "failed" /\ pc[t] = "idle" /\ UNCHANGED <<db, live, silent, astray>>
    BY <1>0, <1>7 DEF CallFails, BeginsEdit
  <2> QED BY <1>0, <1>1, <1>2, <1>3, <1>4, <1>5, <2>1, EditsUntouched
<1>8. ASSUME NEW x \in Parts, db' = With(db, x, x \notin db), x \notin InFlight', live' = live,
             InFlight' = InFlight \/ InFlight' = InFlight \ {x},
             \/ silent' = silent \cup {x} /\ (x \in astray' \/ (Kept => Agree(x)')) /\ astray \subseteq astray'
                /\ astray' \subseteq astray \cup {x}
             \/ silent' = silent \ {x} /\ astray' = astray \ {x} /\ RequestAlive',
             \A u \in Admins : pc'[u] = "applied" => pc[u] = "applied" /\ part'[u] = part[u]
      PROVE  EditParts'
  <2>1. \A y \in Parts \ {x} :
           /\ Agree(y)' <=> Agree(y)
           /\ y \in astray' <=> y \in astray
           /\ y \in silent' <=> y \in silent
           /\ y \in db' <=> y \in db
           /\ y \in InFlight' <=> y \in InFlight
    BY <1>8 DEF Agree, With
  <2>2. RequestAlive' \/ (x \in silent' /\ (x \in astray' \/ (Kept => Agree(x)')))
    BY <1>8
  <2>3. StaleReadIsCovered'
    <3> SUFFICES ASSUME NEW u \in Threads, pc'[u] = "decide", NEW y \in Parts
                 PROVE  (y \in got'[u] <=> y \in db') \/ RequestAlive' \/ y \in silent'
      BY DEF StaleReadIsCovered
    <3>1. CASE y = x
      BY <2>2, <3>1
    <3>2. CASE y # x
      BY <1>1, <1>2, <1>3, <1>5, <2>1, <3>2 DEF EditParts, StaleReadIsCovered
    <3> QED BY <3>1, <3>2
  <2>4. SilentIsLive'
    <3> SUFFICES ASSUME Kept', NEW y \in silent' \ (astray' \cup InFlight') PROVE Agree(y)'
      BY DEF SilentIsLive
    <3>1. y \in Parts
      BY DEF TypeOK, Configs
    <3>2. CASE y = x
      BY <1>1, <1>8, <3>2
    <3>3. CASE y # x
      BY <1>1, <2>1, <3>1, <3>3 DEF EditParts, SilentIsLive
    <3> QED BY <3>2, <3>3
  <2>5. InFlightIsLive'
    <3> SUFFICES ASSUME Kept', NEW u \in Admins, pc'[u] = "applied", part'[u] \notin astray'
                 PROVE  ~Agree(part[u])'
      BY DEF InFlightIsLive
    <3>1. pc[u] = "applied" /\ part'[u] = part[u] /\ part[u] \in Parts /\ part'[u] \in InFlight'
      BY <1>0, <1>8 DEF TypeOK, InFlight
    <3>2. part[u] # x
      BY <1>8, <3>1
    <3>3. part[u] \notin astray /\ ~Agree(part[u])
      BY <1>1, <2>1, <3>1, <3>2 DEF EditParts, InFlightIsLive
    <3> QED BY <1>8, <3>1, <3>2, <3>3 DEF Agree, With
  <2>6. NoLostEdit'
    <3> SUFFICES ASSUME Kept', NEW y \in Parts \ (astray' \cup InFlight')
                 PROVE  Agree(y)' \/ RestartPending(y)' \/ dropped'
      BY DEF NoLostEdit
    <3>1. CASE y = x
      BY <1>1, <2>2, <3>1 DEF RestartPending
    <3>2. CASE y # x
      <4>1. Agree(y) \/ RestartPending(y) \/ dropped
        BY <1>1, <2>1, <3>2 DEF EditParts, NoLostEdit
      <4>2. RestartPending(y) => RestartPending(y)'
        BY <1>1, <1>2, <1>3, <1>5, <2>1, <3>2 DEF RestartPending
      <4> QED BY <1>1, <2>1, <3>2, <4>1, <4>2
    <3> QED BY <3>1, <3>2
  <2> QED BY <2>3, <2>4, <2>5, <2>6 DEF EditParts
<1>9. CASE SaveApplied(t) \/ SaveFailed(t) \/ SaveSwitchedOff(t)
  <2>0. part[t] \in Parts
    BY <1>0, <1>9 DEF SaveApplied, SaveFailed, SaveSwitchedOff, TypeOK
  <2> PICK x \in Parts : x = part[t]
    BY <2>0
  <2>1. /\ pc[t] \in {"applied", "failed"} /\ pc'[t] \in {"idle", "saved"} /\ part'[t] = NoPart /\ live' = live
        /\ db' = With(db, x, x \notin db)
    BY <1>0, <1>9 DEF SaveApplied, SaveFailed, SaveSwitchedOff, Commit
  <2>3. \A u \in Admins \ {t} : part[u] # x
    BY <1>0 DEF OneHandlerPerPart
  <2>4. x \notin InFlight' /\ (InFlight' = InFlight \/ InFlight' = InFlight \ {x})
    BY <1>0, <1>2, <1>4, <2>1, <2>3 DEF InFlight
  <2>5. \A u \in Admins : pc'[u] = "applied" => pc[u] = "applied" /\ part'[u] = part[u]
    BY <1>0, <1>2, <1>4, <2>1
  <2>6. CASE SaveApplied(t)
    <3>1. silent' = silent \cup {x} /\ astray' = astray /\ pc[t] = "applied"
      BY <2>6 DEF SaveApplied
    <3>2. x \in astray \/ (Kept => Agree(x)')
      BY <2>1, <3>1 DEF EditParts, InFlightIsLive, Agree, With
    <3> QED BY <1>8, <2>1, <2>4, <2>5, <3>1, <3>2
  <2>7. CASE SaveFailed(t)
    <3>1. silent' = silent \ {x} /\ astray' = astray \ {x} /\ pc'[t] = "saved"
      BY <1>0, <2>7 DEF SaveFailed, Commit
    <3>2. RequestAlive'
      BY <3>1 DEF RequestAlive
    <3> QED BY <1>8, <2>1, <2>4, <2>5, <3>1, <3>2
  <2>8. CASE SaveSwitchedOff(t)
    <3>1. silent' = silent \cup {x} /\ astray' = astray \cup {x}
      BY <2>8 DEF SaveSwitchedOff
    <3> QED BY <1>8, <2>1, <2>4, <2>5, <3>1
  <2> QED BY <1>9, <2>6, <2>7, <2>8
<1>10. ASSUME NEW x \in Parts, SaveTemplate(t, x) PROVE EditParts'
  <2>1. /\ db' = With(db, x, x \notin db) /\ x \in Templates /\ UNCHANGED <<live, pc, part>>
        /\ silent' = silent \cup {x} /\ astray' = astray \cup {x}
    BY <1>10 DEF SaveTemplate
  <2>2. InFlight' = InFlight /\ x \notin InFlight'
    BY <1>0, <2>1 DEF InFlight
  <2> QED BY <1>8, <2>1, <2>2
<1>11. CASE SaveError(t)
  <2> DEFINE x == part[t]
  <2>1. /\ pc[t] \in {"applied", "failed"} /\ pc'[t] = "idle" /\ part'[t] = NoPart /\ UNCHANGED <<db, live, silent>>
        /\ astray' = IF pc[t] = "applied" THEN astray \cup {x} ELSE astray
    BY <1>0, <1>11 DEF SaveError
  <2>2. CASE pc[t] = "failed"
    BY <1>0, <1>1, <1>2, <1>3, <1>4, <1>5, <2>1, <2>2, EditsUntouched
  <2>3. CASE pc[t] = "applied"
    <3>1. InFlight \subseteq InFlight' \cup {x} /\ InFlight' \subseteq InFlight
      BY <1>0, <1>2, <1>4, <2>1, <2>3 DEF InFlight
    <3>2. StaleReadIsCovered'
      BY <1>1, <1>2, <1>3, <1>5, <2>1 DEF EditParts, StaleReadIsCovered
    <3>3. SilentIsLive'
      BY <1>1, <2>1, <2>3, <3>1 DEF EditParts, SilentIsLive, Agree
    <3>4. InFlightIsLive'
      BY <1>0, <1>1, <1>2, <1>4, <2>1, <2>3 DEF EditParts, InFlightIsLive, Agree
    <3>5. NoLostEdit'
      <4> SUFFICES ASSUME Kept', NEW y \in Parts \ (astray' \cup InFlight')
                   PROVE  Agree(y)' \/ RestartPending(y)' \/ dropped'
        BY DEF NoLostEdit
      <4>1. Agree(y) \/ RestartPending(y) \/ dropped
        BY <1>1, <2>1, <2>3, <3>1 DEF EditParts, NoLostEdit
      <4>2. RestartPending(y) => RestartPending(y)'
        BY <1>1, <1>2, <1>3, <1>5, <2>1 DEF RestartPending
      <4> QED BY <1>1, <2>1, <4>1, <4>2 DEF Agree
    <3> QED BY <3>2, <3>3, <3>4, <3>5 DEF EditParts
  <2> QED BY <2>1, <2>2, <2>3
<1>12. CASE SetToNeedRestart(t)
  <2>1. pc[t] = "saved" /\ pc'[t] = "idle" /\ UNCHANGED <<db, live, part, silent, astray>>
    BY <1>0, <1>12 DEF SetToNeedRestart, edits
  <2> QED BY <1>0, <1>1, <1>2, <1>3, <1>4, <1>5, <2>1, EditsUntouched
<1> QED BY <1>6, <1>7, <1>9, <1>10, <1>11, <1>12 DEF EditSteps

(* Steps of the others.                                                      *)
LEMMA OthersKeepEdits ==
    ASSUME TypeOK, TypeOK', EditParts,
           \/ \E t \in Threads : StopXray(t)
           \/ \E t \in Admins : \/ \E call \in {"lock", "stop", "updateStop"} : AdminBegins(t, call)
                               \/ UpdateFails(t) \/ UpdateRestarts(t)
           \/ \E t \in Checkers : CheckFiring(t) \/ CheckDone(t)
           \/ \E t \in Crons : CronFiring(t)
           \/ \E h \in Handles : ProcNext(h)
    PROVE  EditParts'
<1> USE ThreadsDistinct
<1>0. pc \in [Threads -> PC] /\ Admins \cup Checkers \cup Crons \subseteq Threads /\ state \in [Handles -> ProcState]
  BY DEF TypeOK, Threads
<1>1. ASSUME NEW t \in Threads,
             \/ StopXray(t)
             \/ /\ t \in Admins
                /\ \/ \E call \in {"lock", "stop", "updateStop"} : AdminBegins(t, call)
                   \/ UpdateFails(t) \/ UpdateRestarts(t)
             \/ t \in Checkers /\ (CheckFiring(t) \/ CheckDone(t))
             \/ t \in Crons /\ CronFiring(t)
      PROVE  EditParts'
  <2>1. /\ \A u \in Threads \ {t} : pc'[u] = pc[u]
        /\ pc[t] \in {"idle", "stop", "updateStop", "download", "checked"}
        /\ pc'[t] \in {"idle", "lock", "stop", "updateStop", "download"}
        /\ UNCHANGED <<db, p, state, got, dropped, live, part, silent, astray>>
        /\ Kept' => Kept
    BY <1>0, <1>1 DEF StopXray, AdminBegins, UpdateFails, UpdateRestarts, CheckFiring, CheckDone, CronFiring,
                Signalled, Kept, procVars, edits
  <2>2. RequestAlive => RequestAlive'
    <3>1. CASE t \in Crons /\ CronFiring(t)
      BY <1>0, <3>1 DEF CronFiring, RequestAlive
    <3>2. CASE ~(t \in Crons /\ CronFiring(t))
      <4>1. need' = need
        BY <1>1, <3>2 DEF StopXray, AdminBegins, UpdateFails, UpdateRestarts, CheckFiring, CheckDone
      <4> QED BY <2>1, <4>1, Requesting DEF PartOf
    <3> QED BY <3>1, <3>2
  <2> QED BY <1>0, <2>1, <2>2, EditsUntouched
<1>2. ASSUME NEW h \in Handles, ProcNext(h) PROVE EditParts'
  <2>1. UNCHANGED <<db, need, p, got, pc, dropped, live, part, silent, astray>>
    BY <1>2 DEF ProcNext, Runs, Exec, Crash, Bind, BindFails, Exit, ProcStep, Finalize, edits, counters
  <2>2. Kept' => Kept
    <3>1. CASE Finalize(h)
      BY <1>0, <3>1 DEF Finalize, Kept, Signalled
    <3>2. ASSUME NEW from \in SUBSET {"starting", "up", "serving"}, NEW to \in ProcState, ProcStep(h, from, to)
          PROVE  Kept' => Kept
      BY <1>0, <3>2 DEF ProcStep, Kept
    <3>3. Finalize(h) \/ \E from \in SUBSET {"starting", "up", "serving"}, to \in ProcState : ProcStep(h, from, to)
      BY <1>2 DEF ProcNext, Runs, Exec, Crash, Bind, BindFails, Exit, ProcState
    <3> QED BY <3>1, <3>2, <3>3
  <2>3. RequestAlive' = RequestAlive
    BY <2>1 DEF RequestAlive
  <2> QED BY <2>1, <2>2, <2>3, EditsUntouched
<1> QED BY <1>0, <1>1, <1>2

(* Whatever the interleaving of handlers, jobs, crashes and restarts, the    *)
(* process the panel keeps and the database agree in every part that neither *)
(* went astray nor is being edited, or a restart that will see it is still   *)
(* to come (web.go:302-309, xray.go:315-370, controller/inbound.go:116).     *)
THEOREM EditsAreNotLost == Spec => []EditInv
<1>1. Init => EditInv
  BY HandlesProper, ThreadsDistinct, PartsProper
     DEF Init, EditInv, OneRestartAtATime, OneHandlerPerPart, Inside, StaleReadIsCovered, SilentIsLive,
         InFlightIsLive, NoLostEdit, Kept
<1>2. TypeOK /\ OneHandlerPerPart /\ [Next]_vars => OneHandlerPerPart'
  <2> SUFFICES ASSUME TypeOK, OneHandlerPerPart, [Next]_vars PROVE OneHandlerPerPart'
    OBVIOUS
  <2> USE DEF OneHandlerPerPart
  <2>0. part \in [Admins -> (Parts \ Templates) \cup {NoPart}]
    BY DEF TypeOK
  <2>1. ASSUME NEW t \in Admins, NEW x \in Parts, CallXray(t, x) \/ CallFails(t, x) PROVE OneHandlerPerPart'
    BY <2>0, <2>1 DEF CallXray, CallFails, BeginsEdit
  <2>2. ASSUME NEW t \in Admins, SaveApplied(t) \/ SaveFailed(t) \/ SaveSwitchedOff(t) \/ SaveError(t)
        PROVE  OneHandlerPerPart'
    BY <2>0, <2>2 DEF SaveApplied, SaveFailed, SaveSwitchedOff, SaveError, Commit
  <2>3. CASE part' = part
    BY <2>3
  <2>4. ASSUME NEW t \in Threads, LockRestart(t) \/ StopXray(t) \/ RestartSteps(t) PROVE part' = part
    BY <2>4 DEF LockRestart, StopXray, RestartSteps, ReadConfig, ConfigError, SkipRestart, Replace, StartError,
                StartReturn, Swap, edits
  <2>5. ASSUME NEW t \in Admins,
               \/ \E call \in {"lock", "stop", "updateStop"} : AdminBegins(t, call)
               \/ \E x \in Parts : SaveTemplate(t, x)
               \/ UpdateFails(t) \/ UpdateRestarts(t) \/ SetToNeedRestart(t)
        PROVE  part' = part
    BY <2>5 DEF AdminBegins, SaveTemplate, UpdateFails, UpdateRestarts, SetToNeedRestart, edits
  <2>6. ASSUME NEW t \in Threads, CheckFiring(t) \/ CheckDone(t) \/ CronFiring(t) PROVE part' = part
    BY <2>6 DEF CheckFiring, CheckDone, CronFiring, edits
  <2>7. ASSUME NEW h \in Handles, ProcNext(h) PROVE part' = part
    BY <2>7 DEF ProcNext, Runs, Exec, Crash, Bind, BindFails, Exit, ProcStep, Finalize, edits
  <2>8. CASE UNCHANGED vars
    BY <2>8 DEF vars
  <2> QED BY <2>1, <2>2, <2>3, <2>4, <2>5, <2>6, <2>7, <2>8 DEF Next, AdminNext, EditSteps, Threads
<1>3. TypeOK /\ TypeOK' /\ OneRestartAtATime /\ OneHandlerPerPart /\ EditParts /\ [Next]_vars => EditParts'
  <2> SUFFICES ASSUME TypeOK, TypeOK', OneRestartAtATime, OneHandlerPerPart, EditParts, [Next]_vars
               PROVE  EditParts'
    OBVIOUS
  <2>1. CASE UNCHANGED vars
    BY <2>1, EditsUntouched DEF vars, Kept, RequestAlive
  <2>2. ASSUME NEW t \in Threads, LockRestart(t) \/ RestartSteps(t) PROVE EditParts'
    BY <2>2, RestartKeepsEdits
  <2>3. ASSUME NEW t \in Admins, AdminNext(t) PROVE EditParts'
    BY <2>3, HandlersKeepEdits, OthersKeepEdits DEF AdminNext
  <2>4. CASE \/ \E t \in Threads : StopXray(t)
             \/ \E t \in Checkers : CheckFiring(t) \/ CheckDone(t)
             \/ \E t \in Crons : CronFiring(t)
             \/ \E h \in Handles : ProcNext(h)
    BY <2>4, OthersKeepEdits
  <2> QED BY <2>1, <2>2, <2>3, <2>4 DEF Next
<1>4. EditInv <=> OneRestartAtATime /\ OneHandlerPerPart /\ EditParts
  BY DEF EditInv, EditParts
<1> QED
  BY <1>1, <1>2, <1>3, <1>4, TypeCorrect, MutualExclusion, PTL DEF Spec

(* The part of it the runs check: no edit is lost but one that went astray    *)
(* (web.go:302-309, xray.go:315-370, controller/inbound.go:116).              *)
THEOREM NoEditIsLost == Spec => []NoLostEdit
<1>1. EditInv => NoLostEdit
  BY DEF EditInv
<1>2. QED
  BY <1>1, EditsAreNotLost, PTL

-------------------------------------------------------------------------------
(* RestartXray tells a running process to stop in the step in which it lets  *)
(* go of it: only Swap assigns p (xray.go:340-343).                          *)
THEOREM NoneLetGo == Spec => ReplacedIsSignalled
<1>1. ASSUME [Next]_vars
      PROVE  [p' # p /\ IsRunning(p) => p \in term']_vars
  <2>1. CASE UNCHANGED vars
    BY <2>1
  <2>2. ASSUME NEW t \in Threads, Replace(t) \/ StartError(t), IsRunning(p)
        PROVE  p \in term'
    BY <2>2 DEF Replace, StartError, Swap, Signalled
  <2>3. ASSUME NEW t \in Threads,
               \/ LockRestart(t) \/ StopXray(t) \/ ReadConfig(t) \/ ConfigError(t)
               \/ SkipRestart(t) \/ StartReturn(t)
        PROVE  p' = p
    BY <2>3 DEF LockRestart, StopXray, ReadConfig, ConfigError, SkipRestart, StartReturn
  <2>4. ASSUME NEW t \in Admins, AdminNext(t) PROVE p' = p
    BY <2>4 DEF AdminNext, AdminBegins, CallXray, CallFails, BeginsEdit, SaveTemplate, EditSteps, SaveApplied, SaveFailed,
                SaveSwitchedOff, SaveError, Commit, UpdateFails, UpdateRestarts, SetToNeedRestart
  <2>5. ASSUME NEW t \in Threads, CheckFiring(t) \/ CheckDone(t) \/ CronFiring(t) PROVE p' = p
    BY <2>5 DEF CheckFiring, CheckDone, CronFiring
  <2>6. ASSUME NEW h \in Handles, ProcNext(h) PROVE p' = p
    BY <2>6 DEF ProcNext, Runs, Exec, Crash, Bind, BindFails, Exit, ProcStep, Finalize
  <2>7. QED
    BY <1>1, <2>1, <2>2, <2>3, <2>4, <2>5, <2>6 DEF Next, RestartSteps, Threads
<1>2. QED
  BY <1>1, PTL DEF Spec, ReplacedIsSignalled
-------------------------------------------------------------------------------
(* XraySupervisor implements Supervision. *)

Running == IF Kept THEN cfg[p] ELSE NoConfig
Phase == IF lock = NoThread THEN "closed" ELSE pc[lock]
Taken == IF lock # NoThread /\ pc[lock] = "decide" THEN got[lock] ELSE NoConfig
Due == RequestAlive \/ dropped

(* The mutex is held by nobody outside RestartXray: StopXray and UpdateXray   *)
(* keep it for no longer than a step.                                         *)
HolderIsInside == lock # NoThread => Inside(lock)

LEMMA HolderStaysInside ==
    ASSUME TypeOK, OneRestartAtATime, HolderIsInside, [Next]_vars
    PROVE  HolderIsInside'
<1> USE ThreadsDistinct DEF HolderIsInside, Inside, TypeOK
<1>1. CASE UNCHANGED vars
  BY <1>1 DEF vars
<1>2. ASSUME NEW t \in Threads, LockRestart(t) PROVE HolderIsInside'
  BY <1>2 DEF LockRestart
<1>3. ASSUME NEW t \in Threads, ReadConfig(t) PROVE HolderIsInside'
  BY <1>3 DEF ReadConfig
<1>4. ASSUME NEW t \in Threads, ConfigError(t) \/ SkipRestart(t) \/ StartReturn(t) \/ StartError(t)
      PROVE  HolderIsInside'
  BY <1>4 DEF ConfigError, SkipRestart, StartReturn, StartError, Return
<1>5. ASSUME NEW t \in Threads, Replace(t) PROVE HolderIsInside'
  BY <1>5 DEF Replace
<1>6. ASSUME NEW t \in Threads, StopXray(t) PROVE HolderIsInside'
  BY <1>6 DEF StopXray
<1>7. ASSUME NEW t \in Admins, AdminNext(t) PROVE HolderIsInside'
  BY <1>7 DEF AdminNext, AdminBegins, CallXray, CallFails, BeginsEdit, SaveTemplate, EditSteps, SaveApplied, SaveFailed,
                SaveSwitchedOff, SaveError, Commit, UpdateFails, UpdateRestarts, SetToNeedRestart, Threads
<1>8. ASSUME NEW t \in Checkers, CheckFiring(t) \/ CheckDone(t) PROVE HolderIsInside'
  BY <1>8 DEF CheckFiring, CheckDone, Threads
<1>9. ASSUME NEW t \in Crons, CronFiring(t) PROVE HolderIsInside'
  BY <1>9 DEF CronFiring, Threads
<1>10. ASSUME NEW h \in Handles, ProcNext(h) PROVE HolderIsInside'
  BY <1>10 DEF ProcNext, Runs, Exec, Crash, Bind, BindFails, Exit, ProcStep, Finalize
<1> QED
  BY <1>1, <1>2, <1>3, <1>4, <1>5, <1>6, <1>7, <1>8, <1>9, <1>10 DEF Next, RestartSteps

(* Whoever is outside RestartXray does not touch the session under way.       *)
LEMMA OutsideTheSession ==
    ASSUME TypeOK, HolderIsInside, lock' = lock, got' = got, NEW t \in Threads, ~Inside(t),
           \A u \in Threads \ {t} : pc'[u] = pc[u]
    PROVE  Phase' = Phase /\ Taken' = Taken
BY DEF HolderIsInside, Phase, Taken, TypeOK

(* Steps of the code outside RestartXray.                                     *)
LEMMA OutsidersImplement ==
    ASSUME TypeOK, TypeOK', HolderIsInside, NEW t \in Threads,
           \/ t \in Admins /\ AdminNext(t)
           \/ t \in Checkers /\ (CheckFiring(t) \/ CheckDone(t))
           \/ t \in Crons /\ CronFiring(t)
    PROVE  Supervised!Next \/ UNCHANGED Supervised!vars
<1>1. pc \in [Threads -> PC]
  BY DEF TypeOK
<1>2. /\ UNCHANGED <<lock, got, p, state, cfg, term, dropped>> /\ ~Inside(t)
      /\ \A u \in Threads \ {t} : pc'[u] = pc[u]
  BY <1>1 DEF AdminNext, AdminBegins, CallXray, CallFails, BeginsEdit, SaveTemplate, EditSteps, SaveApplied, SaveFailed,
                SaveSwitchedOff, SaveError, Commit, UpdateFails, UpdateRestarts, SetToNeedRestart,
              CheckFiring, CheckDone, CronFiring, Inside, procVars, edits, counters
<1>3. Phase' = Phase /\ Taken' = Taken /\ Running' = Running
  BY <1>2, OutsideTheSession DEF Running, Kept
<1>4. db' \in Configs
  BY DEF TypeOK
<1>5. Due => Due'
  <2> USE <1>1, <1>2, ThreadsDistinct, Requesting DEF Due, PartOf
  <2>1. CASE t \in Admins /\ SetToNeedRestart(t)
    BY <2>1 DEF SetToNeedRestart, RequestAlive
  <2>2. CASE t \in Admins /\ AdminNext(t) /\ ~SetToNeedRestart(t)
    BY <2>2 DEF AdminNext, AdminBegins, CallXray, CallFails, BeginsEdit, SaveTemplate, EditSteps, SaveApplied,
                SaveFailed, SaveSwitchedOff, SaveError, Commit, UpdateFails, UpdateRestarts
  <2>3. CASE t \in Checkers /\ (CheckFiring(t) \/ CheckDone(t))
    BY <2>3 DEF CheckFiring, CheckDone
  <2>4. CASE t \in Crons /\ CronFiring(t)
    BY <2>4 DEF CronFiring, RequestAlive
  <2> QED BY <2>1, <2>2, <2>3, <2>4
<1> QED BY <1>3, <1>4, <1>5 DEF Supervised!Next, Supervised!Edit, Phase, Taken, Running, Due

(* The steps of RestartXray, StopXray and the processes.                      *)
LEMMA RestartsImplement ==
    ASSUME TypeOK, TypeOK', OneRestartAtATime, NEW t \in Threads, LockRestart(t) \/ RestartSteps(t)
    PROVE  Supervised!Next
<1> USE DEF Phase, Taken, Running, Due
<1>1. /\ pc \in [Threads -> PC] /\ got \in [Threads -> Configs \cup {NoConfig}]
      /\ state \in [Handles -> ProcState] /\ cfg \in [Handles -> Configs \cup {NoConfig}]
      /\ t # NoThread
  BY ThreadsDistinct DEF TypeOK
<1>2. pc[t] \in {"config", "decide", "start"} => lock = t /\ Phase = pc[t]
  BY <1>1 DEF OneRestartAtATime, Inside
<1>3. UNCHANGED <<need, db>> /\ \A u \in Threads \ {t} : pc'[u] = pc[u]
  BY <1>1 DEF LockRestart, RestartSteps, ReadConfig, ConfigError, SkipRestart, Replace, StartError, StartReturn,
              Swap, Return
<1>4. ASSUME dropped' = dropped, PartOf(t)' <=> PartOf(t) PROVE Due' <=> Due
  BY <1>3, <1>4, Requesting
<1>5. CASE LockRestart(t)
  <2>1. /\ lock = NoThread /\ lock' = t /\ pc[t] = "lock" /\ pc'[t] = "config"
        /\ UNCHANGED <<db, p, state, cfg, term, dropped>>
    BY <1>1, <1>5 DEF LockRestart, procVars
  <2>2. Due' <=> Due
    BY <1>4, <2>1 DEF PartOf
  <2>3. Running' = Running
    BY <2>1 DEF Kept
  <2>4. Supervised!Open
    BY <1>1, <2>1, <2>2, <2>3 DEF Supervised!Open
  <2> QED BY <2>4 DEF Supervised!Next
<1>6. CASE ReadConfig(t)
  <2>1. lock = t /\ lock' = t /\ pc[t] = "config" /\ pc'[t] = "decide" /\ got'[t] = db
        /\ UNCHANGED <<db, p, state, cfg, term>> /\ dropped' = FALSE
    BY <1>1, <1>2, <1>6 DEF ReadConfig, procVars
  <2>2. Due' => Due
    BY <1>3, <2>1, Requesting DEF PartOf
  <2>3. Running' = Running
    BY <2>1 DEF Kept
  <2>4. Supervised!Take
    BY <1>1, <2>1, <2>2, <2>3 DEF Supervised!Take
  <2> QED BY <2>4 DEF Supervised!Next
<1>7. CASE ConfigError(t)
  <2>1. lock = t /\ lock' = NoThread /\ pc[t] = "config" /\ pc'[t] \in {"idle", "checked"}
        /\ UNCHANGED <<db, p, state, cfg, term>> /\ dropped' = (dropped \/ t \in Crons)
    BY <1>1, <1>2, <1>7 DEF ConfigError, Return, procVars
  <2>2. Due' <=> Due
    <3>1. CASE t \in Crons
      BY <2>1, <3>1 DEF RequestAlive
    <3>2. CASE t \notin Crons
      BY <1>3, <2>1, <3>2, Requesting DEF PartOf
    <3> QED BY <3>1, <3>2
  <2>3. Running' = Running
    BY <2>1 DEF Kept
  <2>4. Supervised!Close
    BY <1>1, <2>1, <2>2, <2>3 DEF Supervised!Close
  <2> QED BY <2>4 DEF Supervised!Next
<1>8. CASE SkipRestart(t)
  <2>1. lock = t /\ lock' = NoThread /\ pc[t] = "decide" /\ pc'[t] \in {"idle", "checked"}
        /\ UNCHANGED <<db, p, state, cfg, term, dropped>> /\ cfg[p] = got[t]
    BY <1>1, <1>2, <1>8 DEF SkipRestart, CanSkip, Return, procVars
  <2>2. Due' <=> Due
    BY <1>4, <2>1 DEF PartOf
  <2>3. Running' = Running
    BY <2>1 DEF Kept
  <2>4. Supervised!Keep
    BY <1>1, <2>1, <2>2, <2>3 DEF Supervised!Keep
  <2> QED BY <2>4 DEF Supervised!Next
<1>9. CASE Replace(t) \/ StartError(t)
  <2>1. PICK h \in Handles : Swap(t, h, "starting") \/ Swap(t, h, "exited")
    BY <1>9 DEF Replace, StartError
  <2>2. lock = t /\ pc[t] = "decide" /\ p' = h /\ cfg'[h] = got[t] /\ UNCHANGED <<db, dropped>>
    BY <1>1, <1>2, <2>1 DEF Swap
  <2>3. \/ lock' = lock /\ pc'[t] = "start"
        \/ lock' = NoThread /\ pc'[t] \in {"idle", "checked"}
    BY <1>1, <1>9 DEF Replace, StartError, Return
  <2>4. Due' <=> Due
    BY <1>4, <2>2, <2>3 DEF PartOf
  <2>5. Running' \in {got[t], NoConfig}
    BY <2>2
  <2>6. Supervised!Install
    BY <1>1, <2>2, <2>3, <2>4, <2>5 DEF Supervised!Install
  <2> QED BY <2>6 DEF Supervised!Next
<1>10. CASE StartReturn(t)
  <2>1. lock = t /\ lock' = NoThread /\ pc[t] = "start" /\ pc'[t] \in {"idle", "checked"}
        /\ UNCHANGED <<db, p, state, cfg, term, dropped>>
    BY <1>1, <1>2, <1>10 DEF StartReturn, Return, procVars
  <2>2. Due' <=> Due
    BY <1>4, <2>1 DEF PartOf
  <2>3. Running' = Running
    BY <2>1 DEF Kept
  <2>4. Supervised!Close
    BY <1>1, <2>1, <2>2, <2>3 DEF Supervised!Close
  <2> QED BY <2>4 DEF Supervised!Next
<1> QED BY <1>5, <1>6, <1>7, <1>8, <1>9, <1>10 DEF RestartSteps

LEMMA StopsImplement ==
    ASSUME TypeOK, TypeOK', HolderIsInside,
           (\E t \in Threads : StopXray(t)) \/ (\E h \in Handles : ProcNext(h))
    PROVE  Supervised!Next \/ UNCHANGED Supervised!vars
<1>0. state \in [Handles -> ProcState] /\ cfg \in [Handles -> Configs \cup {NoConfig}] /\ pc \in [Threads -> PC]
  BY DEF TypeOK
<1>1. ASSUME NEW t \in Threads, StopXray(t) PROVE Supervised!Lose \/ UNCHANGED Supervised!vars
  <2>1. /\ UNCHANGED <<db, need, lock, p, got, dropped, state, cfg>> /\ lock = NoThread
        /\ \A u \in Threads \ {t} : pc'[u] = pc[u]
        /\ pc[t] \in {"stop", "updateStop"} /\ pc'[t] \in {"idle", "download"}
        /\ term' = Signalled(p)
    BY <1>0, <1>1 DEF StopXray
  <2>2. Phase' = Phase /\ Taken' = Taken
    BY <2>1, OutsideTheSession DEF Inside
  <2>3. Due' <=> Due
    BY <2>1, Requesting DEF Due, PartOf
  <2>4. Running' \in {Running, NoConfig}
    BY <2>1 DEF Running, Kept, Signalled
  <2> QED BY <2>1, <2>2, <2>3, <2>4 DEF Supervised!Lose, Supervised!vars, Phase, Taken, Running, Due
<1>2. ASSUME NEW h \in Handles, ProcNext(h) PROVE Supervised!Lose \/ UNCHANGED Supervised!vars
  <2>1. UNCHANGED <<db, need, lock, p, got, dropped, pc>>
    BY <1>2 DEF ProcNext, Runs, Exec, Crash, Bind, BindFails, Exit, ProcStep, Finalize, counters
  <2>2. Phase' = Phase /\ Taken' = Taken /\ (Due' <=> Due)
    BY <2>1 DEF Phase, Taken, Due, RequestAlive
  <2>3. Running' \in {Running, NoConfig}
    <3>1. CASE Finalize(h)
      BY <1>0, <3>1 DEF Finalize, Running, Kept, Signalled
    <3>2. ASSUME NEW from \in SUBSET ProcState, NEW to \in ProcState, ProcStep(h, from, to),
                 from \subseteq {"starting", "up", "serving"}
          PROVE  Running' \in {Running, NoConfig}
      BY <1>0, <3>2 DEF ProcStep, Running, Kept
    <3>3. Finalize(h) \/ \E from \in SUBSET {"starting", "up", "serving"}, to \in ProcState : ProcStep(h, from, to)
      BY <1>2 DEF ProcNext, Runs, Exec, Crash, Bind, BindFails, Exit, ProcState
    <3> QED BY <3>1, <3>2, <3>3 DEF ProcState
  <2> QED BY <2>1, <2>2, <2>3 DEF Supervised!Lose, Supervised!vars, Phase, Taken, Running, Due
<1> QED BY <1>1, <1>2 DEF Supervised!Next

(* XraySupervisor implements Supervision: for every set of handlers, firings  *)
(* and configurations, whatever crashes or fails, restarts happen one after   *)
(* another, each installs what was saved when it looked, and no edit that     *)
(* asks for a restart stops being due before one has looked at it             *)
(* (xray.go:315-370, web.go:302-309).                                         *)
THEOREM ImplementsSupervision == Spec => KeepsOneXray
<1>1. Init => HolderIsInside
  BY DEF Init, HolderIsInside
<1>2. Init => Supervised!Init
  BY ThreadsDistinct, HandlesProper DEF Init, Supervised!Init, Kept, RequestAlive, Threads
<1>3. TypeOK /\ OneRestartAtATime /\ HolderIsInside /\ [Next]_vars => HolderIsInside'
  BY HolderStaysInside
<1>4. TypeOK /\ TypeOK' /\ OneRestartAtATime /\ HolderIsInside /\ [Next]_vars
      => [Supervised!Next]_(Supervised!vars)
  <2> SUFFICES ASSUME TypeOK, TypeOK', OneRestartAtATime, HolderIsInside, [Next]_vars
               PROVE  Supervised!Next \/ UNCHANGED Supervised!vars
    OBVIOUS
  <2>1. CASE UNCHANGED vars
    BY <2>1 DEF vars, Supervised!vars, Kept, RequestAlive
  <2>2. ASSUME NEW t \in Threads, LockRestart(t) \/ RestartSteps(t) PROVE Supervised!Next
    BY <2>2, RestartsImplement
  <2>3. CASE (\E t \in Threads : StopXray(t)) \/ (\E h \in Handles : ProcNext(h))
    BY <2>3, StopsImplement
  <2>4. ASSUME NEW t \in Threads,
               \/ t \in Admins /\ AdminNext(t)
               \/ t \in Checkers /\ (CheckFiring(t) \/ CheckDone(t))
               \/ t \in Crons /\ CronFiring(t)
        PROVE  Supervised!Next \/ UNCHANGED Supervised!vars
    BY <2>4, OutsidersImplement
  <2> QED BY <2>1, <2>2, <2>3, <2>4 DEF Next, Threads
<1> QED BY <1>1, <1>2, <1>3, <1>4, TypeCorrect, MutualExclusion, PTL DEF Spec, KeepsOneXray, Supervised!Spec
===============================================================================
