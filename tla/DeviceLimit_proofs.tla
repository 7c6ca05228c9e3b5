-------------------------- MODULE DeviceLimit_proofs ---------------------------
(***************************************************************************)
(* Proofs about DeviceLimit, for every set of users and addresses, every   *)
(* TTL, observation period and set of limits: the types, that nobody holds *)
(* a random credential unmarked, and that bans bite and spare the others.  *)
(***************************************************************************)
EXTENDS DeviceLimit, TLAPS

USE DEF log, job, Never

-------------------------------------------------------------------------------
(* Ageing and forgetting stay within the ranges of ages. *)
LEMMA OlderStays ==
    ASSUME NEW top \in Nat, NEW a \in -1 .. top
    PROVE  Older(a, top) \in -1 .. top
  BY DEF Older

LEMMA AgedTyped ==
    ASSUME NEW R, NEW slow \in BOOLEAN,
           \A u \in Users : age[u] \in [IPs -> -1 .. TTL + 1]
    PROVE  \A u \in Users : Aged(R, slow)[u] \in [IPs -> -1 .. TTL]
<1> SUFFICES ASSUME NEW u \in Users, NEW i \in IPs
             PROVE  Aged(R, slow)[u][i] \in -1 .. TTL
  BY DEF Aged
<1> DEFINE a == Older(age[u][i], TTL + 1)
<1>1. a \in -1 .. TTL + 1
  BY OlderStays, TimesPositive DEF TimesPositive
<1>2. Aged(R, slow)[u][i] =
        IF <<u, i>> \in R THEN 0
        ELSE IF MustExpire(a) \/ (MayExpire(a) /\ slow) THEN -1 ELSE a
  BY DEF Aged
<1>3. ~MustExpire(a) => a \in -1 .. TTL
  BY <1>1, TimesPositive DEF MustExpire, TimesPositive
<1> QED
  BY <1>2, <1>3, TimesPositive DEF TimesPositive

(* The variables keep their types, and no pass counts an address older than  *)
(* the TTL (check_client_ip_job.go:95-120).                                  *)
THEOREM TypeCorrect == Spec => []TypeOK
<1> USE TimesPositive, LimitsNat, NoUserIsNone DEF TypeOK, TimesPositive, LimitsNat, NoUserIsNone
<1>1. Init => TypeOK
  <2> SUFFICES ASSUME Init PROVE TypeOK
    OBVIOUS
  <2>1. unread \subseteq Users \X IPs
    BY DEF Init
  <2>2. \A u \in Users : age[u] \in [IPs -> -1 .. TTL + 1]
    BY DEF Init
  <2>3. viol \in [Users -> -1 .. Observe + 1] /\ overFor \in [Users -> -1 .. Observe]
    BY DEF Init
  <2> QED
    BY <2>1, <2>2, <2>3 DEF Init
<1>2. TypeOK /\ [Next]_vars => TypeOK'
  <2> SUFFICES ASSUME TypeOK, [Next]_vars PROVE TypeOK'
    OBVIOUS
  <2>1. CASE UNCHANGED vars
    BY <2>1 DEF vars
  <2>2. CASE SkipPass
    <3>1. ASSUME NEW u \in Users PROVE age'[u] \in [IPs -> -1 .. TTL + 1]
      <4>1. \A i \in IPs : Older(age[u][i], TTL + 1) \in -1 .. TTL + 1
        BY <2>2, OlderStays DEF SkipPass
      <4>2. age'[u] = [i \in IPs |-> Older(age[u][i], TTL + 1)]
        BY <2>2 DEF SkipPass
      <4> QED
        BY <4>1, <4>2
    <3>2. viol' \in [Users -> -1 .. Observe + 1] /\ overFor' \in [Users -> -1 .. Observe]
      BY <2>2, OlderStays DEF SkipPass
    <3> QED
      BY <2>2, <3>1, <3>2 DEF SkipPass
  <2>3. CASE BeginPass
    <3>1. \A u \in Users : age'[u] \in [IPs -> -1 .. TTL]
      BY <2>3, AgedTyped DEF BeginPass
    <3>2. \A u \in Users : age'[u] \in [IPs -> -1 .. TTL + 1]
      BY <3>1
    <3>3. viol' \in [Users -> -1 .. Observe + 1]
      BY <2>3, OlderStays DEF BeginPass
    <3>4. overFor' \in [Users -> -1 .. Observe]
      BY <2>3, OlderStays DEF BeginPass
    <3>5. unread' \subseteq Users \X IPs /\ beyond' \in BOOLEAN
      BY <2>3 DEF BeginPass, Parse
    <3>6. todo' \subseteq Users
      BY <2>3 DEF BeginPass, Visited
    <3>7. pc' \in {"idle", "visit"} /\ lim' \in Limits
      BY <2>3 DEF BeginPass
    <3> QED
      BY <2>3, <3>1, <3>2, <3>3, <3>4, <3>5, <3>6, <3>7 DEF BeginPass
  <2>4. ASSUME NEW u \in Users, Visit(u) PROVE TypeOK'
    <3>1. CASE StartObserving(u) \/ KeepObserving(u) \/ WithinLimit(u) \/ PassOver(u)
      BY <2>4, <3>1 DEF Visit, StartObserving, KeepObserving, WithinLimit, PassOver, Stays, Due
    <3>2. CASE Ban(u)
      BY <2>4, <3>2 DEF Visit, Ban, Begin, Due, Reach
    <3>3. CASE Unban(u)
      BY <2>4, <3>3 DEF Visit, Unban, Begin, Due, Reach
    <3> QED
      BY <2>4, <3>1, <3>2, <3>3 DEF Visit
  <2>5. CASE Finish
    BY <2>5 DEF Finish, FinishBan, FinishUnban, Adds, AddedNow, Reach
  <2>6. CASE EndPass
    <3>1. \A u \in Users : age'[u] \in [IPs -> -1 .. TTL + 1]
      BY <2>6 DEF EndPass
    <3> QED
      BY <2>6, <3>1 DEF EndPass
  <2>7. ASSUME NEW u \in Users, UserOps(u) PROVE TypeOK'
    BY <2>7 DEF UserOps, TakeAway, Give, Edited
  <2>8. CASE EditInbound
    BY <2>8 DEF EditInbound, Edited
  <2>9. CASE XrayEnds \/ XrayStarts
    BY <2>9 DEF XrayEnds, XrayStarts
  <2>10. ASSUME NEW u \in Users, NEW i \in IPs, Connect(u, i) PROVE TypeOK'
    BY <2>10 DEF Connect
  <2>11. CASE Truncate
    BY <2>11 DEF Truncate
  <2> QED
    BY <2>1, <2>2, <2>3, <2>4, <2>5, <2>6, <2>7, <2>8, <2>9, <2>10, <2>11
       DEF Next, JobStep, EnvNext
<1> QED
  BY <1>1, <1>2, PTL DEF Spec

-------------------------------------------------------------------------------
(* Nobody holds a random credential without being marked: whatever fails,    *)
(* restarts or is edited in the 5 s between the two calls of a ban or an     *)
(* unban (check_client_ip_job.go:349-416).                                   *)
THEOREM RandomIsMarked == Spec => []TempIsKnown
<1> USE DEF TypeOK, TempIsKnown
<1>1. Init => TempIsKnown
  BY DEF Init
<1>2. TypeOK /\ TempIsKnown /\ [Next]_vars => TempIsKnown'
  <2> SUFFICES ASSUME TypeOK, TempIsKnown, [Next]_vars PROVE TempIsKnown'
    OBVIOUS
  <2>1. CASE UNCHANGED vars
    BY <2>1 DEF vars
  <2>2. CASE SkipPass \/ BeginPass \/ EndPass
    BY <2>2 DEF SkipPass, BeginPass, EndPass
  <2>3. ASSUME NEW u \in Users, Visit(u) PROVE TempIsKnown'
    <3>1. banned' = banned /\ \A v \in Users : rt'[v] = rt[v] \/ rt'[v] = "none"
      BY <2>3 DEF Visit, StartObserving, KeepObserving, WithinLimit, PassOver, Ban, Unban,
                  Begin, Stays
    <3> QED
      BY <3>1
  <2>4. CASE Finish
    <3>1. ASSUME NEW ok \in BOOLEAN, FinishBan(ok) PROVE TempIsKnown'
      BY <3>1 DEF FinishBan, Adds, AddedNow
    <3>2. ASSUME NEW ok \in BOOLEAN, FinishUnban(ok) PROVE TempIsKnown'
      BY <3>2 DEF FinishUnban, Adds, AddedNow
    <3> QED
      BY <2>4, <3>1, <3>2 DEF Finish
  <2>5. ASSUME NEW u \in Users, UserOps(u) PROVE TempIsKnown'
    BY <2>5 DEF UserOps, TakeAway, Give
  <2>6. CASE EditInbound \/ XrayEnds \/ XrayStarts \/ Truncate
    BY <2>6 DEF EditInbound, XrayEnds, XrayStarts, Truncate
  <2>7. ASSUME NEW u \in Users, NEW i \in IPs, Connect(u, i) PROVE TempIsKnown'
    BY <2>7 DEF Connect
  <2> QED
    BY <2>1, <2>2, <2>3, <2>4, <2>5, <2>6, <2>7 DEF Next, JobStep, EnvNext
<1> QED
  BY <1>1, <1>2, TypeCorrect, PTL DEF Spec

-------------------------------------------------------------------------------
(* InStep says nothing of the user a ban or unban is asleep on; the          *)
(* strengthening does: he is unmarked in a ban and marked in an unban, and   *)
(* even then no unmarked user holds his credential against the database, and *)
(* no marked one holds it at all.                                            *)
HalfInStep(u) ==
    IF u \in banned THEN rt[u] # "real"
    ELSE /\ rt[u] = "real" => client[u] = "on"
         /\ u # cur /\ client[u] = "on" => rt[u] = "real"

StepInv ==
    /\ pc = "ban" => cur \notin banned
    /\ pc = "unban" => cur \in banned
    /\ up => \A u \in Users \ astray : HalfInStep(u)

(* A banned user cannot use his own credential, and everybody else can       *)
(* exactly when the database has him switched on, but for those whom one of  *)
(* the known gaps has touched since Xray started                             *)
(* (check_client_ip_job.go:213-417).                                         *)
THEOREM BansBite == Spec => []InStep
<1> USE NoUserIsNone DEF TypeOK, TempIsKnown, StepInv, HalfInStep, NoUserIsNone
<1>1. Init => StepInv
  BY DEF Init
<1>2. TypeOK /\ TempIsKnown /\ StepInv /\ [Next]_vars => StepInv'
  <2> SUFFICES ASSUME TypeOK, TempIsKnown, StepInv, [Next]_vars PROVE StepInv'
    OBVIOUS
  <2>1. CASE UNCHANGED vars
    BY <2>1 DEF vars
  <2>2. CASE SkipPass
    BY <2>2 DEF SkipPass
  <2>3. CASE BeginPass
    BY <2>3 DEF BeginPass
  <2>4. CASE EndPass
    BY <2>4 DEF EndPass
  <2>5. ASSUME NEW u \in Users, Visit(u) PROVE StepInv'
    <3>1. CASE StartObserving(u) \/ KeepObserving(u) \/ WithinLimit(u) \/ PassOver(u)
      BY <2>5, <3>1 DEF Visit, StartObserving, KeepObserving, WithinLimit, PassOver, Stays
    <3>2. CASE Ban(u)
      BY <2>5, <3>2 DEF Visit, Ban, Observed, Begin, Due
    <3>3. CASE Unban(u)
      BY <2>5, <3>3 DEF Visit, Unban, Begin, Due
    <3> QED
      BY <2>5, <3>1, <3>2, <3>3 DEF Visit
  <2>6. CASE Finish
    <3>1. ASSUME NEW ok \in BOOLEAN, FinishBan(ok), Finish PROVE StepInv'
      BY <3>1 DEF FinishBan, Finish, Adds, AddedNow
    <3>2. ASSUME NEW ok \in BOOLEAN, FinishUnban(ok), Finish PROVE StepInv'
      BY <3>2 DEF FinishUnban, Finish, Adds, AddedNow
    <3> QED
      BY <2>6, <3>1, <3>2 DEF Finish
  <2>7. ASSUME NEW u \in Users, NEW to \in {"none", "off"}, TakeAway(u, to) PROVE StepInv'
    BY <2>7 DEF TakeAway
  <2>8. ASSUME NEW u \in Users, Give(u) PROVE StepInv'
    BY <2>8 DEF Give
  <2>9. CASE EditInbound
    BY <2>9 DEF EditInbound
  <2>10. CASE XrayEnds
    BY <2>10 DEF XrayEnds
  <2>11. CASE XrayStarts
    BY <2>11 DEF XrayStarts
  <2>12. ASSUME NEW u \in Users, NEW i \in IPs, Connect(u, i) PROVE StepInv'
    BY <2>12 DEF Connect
  <2>13. CASE Truncate
    BY <2>13 DEF Truncate
  <2> QED
    BY <2>1, <2>2, <2>3, <2>4, <2>5, <2>6, <2>7, <2>8, <2>9, <2>10, <2>11, <2>12, <2>13
       DEF Next, JobStep, EnvNext, UserOps
<1>3. StepInv => InStep
  BY DEF InStep
<1> QED
  BY <1>1, <1>2, <1>3, TypeCorrect, RandomIsMarked, PTL DEF Spec
===============================================================================
