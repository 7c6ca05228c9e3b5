-------------------------- MODULE ClientAccess_proofs --------------------------
(***************************************************************************)
(* Proofs about ClientAccess, for every set of clients: the types with the *)
(* agreement of settings and rows, and that the running Xray stays in step *)
(* with the database.                                                      *)
(***************************************************************************)
EXTENDS ClientAccess, TLAPS

USE DEF db, restart, counters

-------------------------------------------------------------------------------
(* An inbound that is gone has taken its clients along: AddInbound relies on *)
(* it when it leaves the other rows alone.                                   *)
Sound == TypeOK /\ (inb = "none" => Members = {})

(* The calls keep a runtime's type. *)
LEMMA CallsTyped ==
    ASSUME NEW ok \in BOOLEAN, NEW A \in SUBSET Emails,
           NEW r \in Runtimes
    PROVE  /\ Added(ok, r, A) \in Runtimes
           /\ Removed(ok, r, A) \in Runtimes
  BY DEF Added, Removed, Runtimes

LEMMA RuntimesProper ==
    ASSUME NEW S \in SUBSET Emails, NEW en
    PROVE  Nothing \in Runtimes /\ Config \in Runtimes /\ Pushed(en, S) \in Runtimes
<1>1. \A U \in SUBSET Emails : [tag |-> TRUE, users |-> U] \in Runtimes
  BY DEF Runtimes
<1>2. Nothing \in Runtimes
  BY DEF Nothing, Runtimes
<1> QED
  BY <1>1, <1>2 DEF Config, Pushed

(* What a pass of AddTraffic's housekeeping leaves well typed. *)
StaysTyped ==
    /\ inb' \in {"none", "off", "on"}
    /\ inb' = "none" => inb = "none"
    /\ row' \in [Emails -> {"none", "off", "on"}]
    /\ \A e \in Emails : row'[e] = "none" <=> row[e] = "none"
    /\ spent' \subseteq Members /\ expired' \subseteq Members
    /\ rt' \in Runtimes
    /\ astray' \subseteq Emails \cup {TheInbound}

LEMMA HousekeepTyped ==
    ASSUME Sound, NEW ok \in BOOLEAN, NEW D \in SUBSET Emails, Housekeep(ok, D),
           \A e \in D : row[e] # "none"
    PROVE  StaysTyped
<1> USE DEF Sound, TypeOK, Housekeep
<1>1. Renewed(D) \subseteq Members /\ \A e \in Renewed(D) : row[e] # "none"
  BY DEF Renewed, Members
<1>2. Revived(D) \subseteq Emails /\ CutOff(D) \subseteq Emails
  BY DEF Revived, CutOff, Renewed, Members
<1>3. \A e \in CutOff(D) : row[e] # "none"
  BY DEF CutOff, Revived
<1>4. rt' \in Runtimes
  BY <1>2, CallsTyped, RuntimesProper DEF Housekept
<1>5. D \subseteq Members
  BY DEF Members
<1> QED
  BY <1>1, <1>2, <1>3, <1>4, <1>5 DEF CutInbound, Members, StaysTyped

(* An inductive invariant stronger than the types: see Sound.                *)
LEMMA SoundAlways == Spec => []Sound
<1> USE InboundIsNoEmail DEF InboundIsNoEmail
<1>1. Init => Sound
  BY RuntimesProper DEF Init, Sound, TypeOK, Members
<1>2. Sound /\ [Next]_vars => Sound'
  <2> SUFFICES ASSUME Sound, [Next]_vars PROVE Sound'
    OBVIOUS
  <2> USE DEF Sound, TypeOK, Members
  <2>1. CASE UNCHANGED vars
    BY <2>1 DEF vars
  <2>2. ASSUME NEW e \in Emails, NEW ok \in BOOLEAN, NEW en \in {"off", "on"}, AddClient(e, en, ok)
        PROVE  Sound'
    BY <2>2, CallsTyped, RuntimesProper DEF AddClient, Ask
  <2>3. ASSUME NEW e \in Emails, NEW ok \in BOOLEAN, DelClient(e, ok) PROVE Sound'
    BY <2>3, CallsTyped, RuntimesProper DEF DelClient, Ask
  <2>4. ASSUME NEW e \in Emails, NEW ok \in BOOLEAN, NEW en \in {"off", "on"},
               NEW renewed \in BOOLEAN, UpdateClient(e, en, renewed, ok)
        PROVE  Sound'
    <3> DEFINE old == IF settings[e] = "on" THEN {e} ELSE {}
               new == IF en = "on" THEN {e} ELSE {}
    <3>1. rt' \in Runtimes
      <4>1. rt' = Added(ok, Removed(ok, rt, old), new)
        BY <2>4 DEF UpdateClient
      <4>2. old \in SUBSET Emails /\ new \in SUBSET Emails
        OBVIOUS
      <4>3. Removed(ok, rt, old) \in Runtimes
        BY <4>2, CallsTyped
      <4> HIDE DEF old, new
      <4> QED
        BY <4>1, <4>2, <4>3, CallsTyped
    <3>2. spent' \subseteq spent /\ expired' \subseteq expired
      BY <2>4 DEF UpdateClient
    <3>3. need' \in BOOLEAN
      BY <2>4 DEF UpdateClient, Ask
    <3>4. settings[e] # "absent" /\ row[e] # "none"
      BY <2>4 DEF UpdateClient
    <3>5. /\ settings' = [settings EXCEPT ![e] = en]
          /\ row' = [row EXCEPT ![e] = IF @ = "none" THEN @ ELSE "on"]
          /\ UNCHANGED <<inb, inbOver, up, base, restart, astray>>
      BY <2>4 DEF UpdateClient
    <3> HIDE DEF old, new
    <3> QED
      BY <3>1, <3>2, <3>3, <3>4, <3>5
  <2>5. ASSUME NEW e \in Emails, NEW ok \in BOOLEAN, ResetClient(e, ok) PROVE Sound'
    BY <2>5, CallsTyped, RuntimesProper DEF ResetClient, ResetAdds, Ask
  <2>6. ASSUME NEW e \in Emails, BotResetClient(e) PROVE Sound'
    BY <2>6 DEF BotResetClient
  <2>7. CASE ResetAllClients
    BY <2>7 DEF ResetAllClients
  <2>8. CASE DelDepleted
    BY <2>8, RuntimesProper DEF DelDepleted, Depleted, DeletedRows
  <2>9. ASSUME NEW ok \in BOOLEAN, NEW en \in {"off", "on"}, NEW renewed \in BOOLEAN,
               UpdateInbound(en, renewed, ok)
        PROVE  Sound'
    BY <2>9, RuntimesProper DEF UpdateInbound, Pushed, Ask
  <2>10. ASSUME NEW ok \in BOOLEAN, NEW S \in SUBSET Emails, NEW offs \in SUBSET S,
                NEW en \in {"off", "on"}, AddInbound(S, offs, en, ok)
         PROVE  Sound'
    BY <2>10, RuntimesProper DEF AddInbound, Pushed, Ask
  <2>11. ASSUME NEW ok \in BOOLEAN, DelInbound(ok) PROVE Sound'
    BY <2>11, RuntimesProper DEF DelInbound, Ask
  <2>12. ASSUME NEW ok \in BOOLEAN, NEW D \in SUBSET Emails, TrafficJob(ok, D) PROVE Sound'
    <3>1. Housekeep(ok, D) /\ UNCHANGED settings /\ \A e \in D : row[e] # "none"
      BY <2>12 DEF TrafficJob
    <3>2. need' \in BOOLEAN /\ UNCHANGED <<inbOver, up, base, restart>>
      BY <2>12 DEF TrafficJob, Ask
    <3> HIDE DEF Sound, TypeOK, Members
    <3>3. StaysTyped
      BY <3>1, HousekeepTyped
    <3> USE DEF Sound, TypeOK, Members
    <3> QED
      BY <3>1, <3>2, <3>3 DEF StaysTyped
  <2>13. CASE RestartRead
    BY <2>13, RuntimesProper DEF RestartRead, Config, Op
  <2>14. ASSUME NEW ok \in BOOLEAN, RestartHousekeep(ok) PROVE Sound'
    <3>1. Housekeep(ok, {}) /\ UNCHANGED settings
      BY <2>14 DEF RestartHousekeep
    <3>2. rs' = "built" /\ UNCHANGED <<inbOver, up, base, need, force, snap>>
      BY <2>14 DEF RestartHousekeep
    <3> HIDE DEF Sound, TypeOK, Members
    <3>3. StaysTyped
      BY <3>1, HousekeepTyped
    <3> USE DEF Sound, TypeOK, Members
    <3> QED
      BY <3>1, <3>2, <3>3 DEF StaysTyped
  <2>15. CASE SkipRestart \/ StartXray
    BY <2>15, RuntimesProper DEF SkipRestart, StartXray, OutOfStep
  <2>16. ASSUME NEW e \in Emails, Expires(e) PROVE Sound'
    BY <2>16 DEF Expires
  <2>17. CASE InboundRunsOut \/ XrayDies
    BY <2>17, RuntimesProper DEF InboundRunsOut, XrayDies
  <2>18. ASSUME NEW e \in Emails, NEW ok \in BOOLEAN, ClientOps(e, ok) PROVE Sound'
    BY <2>18, <2>2, <2>3, <2>4, <2>5, <2>6 DEF ClientOps
  <2> HIDE DEF Sound, TypeOK, Members
  <2>19. ASSUME NEW ok \in BOOLEAN, InboundOps(ok) PROVE Sound'
    BY <2>19, <2>9, <2>10, <2>11 DEF InboundOps
  <2>20. ASSUME NEW ok \in BOOLEAN, Jobs(ok) \/ RestartSteps(ok) PROVE Sound'
    BY <2>20, <2>12, <2>13, <2>14, <2>15 DEF Jobs, RestartSteps
  <2> QED
    BY <2>1, <2>7, <2>8, <2>16, <2>17, <2>18, <2>19, <2>20 DEF Next
<1> QED
  BY <1>1, <1>2, PTL DEF Spec

(* The variables keep their types, and a client of the settings keeps its    *)
(* row: no handler creates or deletes one without the other                  *)
(* (inbound.go:553-939, 1858-1934).                                          *)
THEOREM TypeCorrect == Spec => []TypeOK
<1>1. Sound => TypeOK
  BY DEF Sound
<1> QED
  BY <1>1, SoundAlways, PTL

-------------------------------------------------------------------------------
(* Calls that all get through leave exactly the users they were to leave.    *)
LEMMA PassedOn ==
    ASSUME NEW ok \in BOOLEAN, NEW r \in Runtimes, NEW A \in SUBSET Emails,
           NEW C \in SUBSET Emails, A # {} => ok /\ r.tag, C # {} => ok
    PROVE  LET s == Removed(ok, Added(ok, r, A), C)
           IN  s.tag = r.tag /\ s.users = (r.users \cup A) \ C
  BY DEF Added, Removed, Runtimes

(* The traffic job keeps Xray in step or asks for a restart. *)
LEMMA JobKeepsStep ==
    ASSUME Sound, InSync, NEW ok \in BOOLEAN, NEW D \in SUBSET Emails, TrafficJob(ok, D)
    PROVE  InSync'
<1> USE InboundIsNoEmail DEF Sound, TypeOK, Members, InboundIsNoEmail
<1> SUFFICES ASSUME up, ~need', rs = "idle", TheInbound \notin astray'
             PROVE  /\ rt'.tag <=> inb' = "on"
                    /\ \A e \in Emails \ astray' : e \in rt'.users <=> Entitled(e)'
  BY DEF InSync, TrafficJob
<1>1. /\ ~need /\ TheInbound \notin astray /\ astray \subseteq astray'
      /\ rt.tag <=> inb = "on"
      /\ \A e \in Emails \ astray : e \in rt.users <=> Entitled(e)
  BY DEF TrafficJob, Housekeep, Ask, InSync
<1>2. /\ Revived(D) # {} => ok /\ rt.tag
      /\ CutOff(D) # {} => ok /\ rt.tag
      /\ CutInbound => ok
  BY DEF TrafficJob, Ask, HousekeepErr, AddErr, RemoveErr
<1>3. Revived(D) \in SUBSET Emails /\ CutOff(D) \in SUBSET Emails
  BY DEF Revived, Renewed, CutOff
<1>4. Revived(D) \cap CutOff(D) = {} /\ Revived(D) \subseteq Renewed(D)
  BY DEF Revived, CutOff
<1>5. CASE CutInbound
  <2>1. rt' = Nothing /\ inb' = "off"
    BY <1>2, <1>5 DEF TrafficJob, Housekeep, Housekept
  <2> QED
    BY <2>1 DEF Nothing, Entitled
<1>6. CASE ~CutInbound
  <2>1. inb' = inb /\ rt' = Removed(ok, Added(ok, rt, Revived(D)), CutOff(D))
    BY <1>6 DEF TrafficJob, Housekeep, Housekept
  <2>2. rt'.tag = rt.tag /\ rt'.users = (rt.users \cup Revived(D)) \ CutOff(D)
    <3>1. rt \in Runtimes /\ (Revived(D) # {} => ok /\ rt.tag) /\ (CutOff(D) # {} => ok)
      BY <1>2
    <3> HIDE DEF Sound, TypeOK, Members
    <3> QED
      BY <1>3, <2>1, <3>1, PassedOn
  <2>3. ASSUME NEW e \in Emails \ astray' PROVE e \in rt'.users <=> Entitled(e)'
    <3>1. settings'[e] = settings[e] /\ (e \in Revived(D) => settings[e] = "on")
      BY DEF TrafficJob, Housekeep, Revived, Renewed
    <3>2. row'[e] = IF e \in CutOff(D) THEN "off" ELSE IF e \in Renewed(D) THEN "on" ELSE row[e]
      BY DEF TrafficJob, Housekeep
    <3>3. e \in Renewed(D) \ Revived(D) => row[e] = "on"
      BY DEF Revived, Renewed
    <3>4. e \in rt.users <=> Entitled(e)
      BY <1>1
    <3> QED
      BY <1>1, <1>2, <1>4, <2>1, <2>2, <3>1, <3>2, <3>3, <3>4 DEF Entitled, Passes
  <2> QED
    BY <1>1, <2>1, <2>2, <2>3
<1> QED
  BY <1>5, <1>6

(* So do the handlers of clients. *)
LEMMA ClientOpsKeepStep ==
    ASSUME Sound, InSync, NEW e \in Emails, NEW ok \in BOOLEAN, ClientOps(e, ok)
    PROVE  InSync'
<1> USE InboundIsNoEmail DEF Sound, TypeOK, Members, InboundIsNoEmail, InSync, Entitled, Passes, Ask
<1>1. ASSUME NEW en \in {"off", "on"}, AddClient(e, en, ok) PROVE InSync'
  BY <1>1 DEF AddClient, Added, AddErr, Runtimes
<1>2. CASE DelClient(e, ok)
  BY <1>2 DEF DelClient, Removed, RemoveErr, Runtimes
<1>3. ASSUME NEW en \in {"off", "on"}, NEW renewed \in BOOLEAN, UpdateClient(e, en, renewed, ok)
      PROVE  InSync'
  BY <1>3 DEF UpdateClient, Added, AddErr, Removed, RemoveErr, Runtimes
<1>4. CASE ResetClient(e, ok)
  BY <1>4 DEF ResetClient, ResetAdds, Added, AddErr, Runtimes
<1>5. CASE BotResetClient(e)
  BY <1>5 DEF BotResetClient
<1> HIDE DEF InSync
<1> QED
  BY <1>1, <1>2, <1>3, <1>4, <1>5 DEF ClientOps

(* And those of the whole inbound. *)
LEMMA InboundOpsKeepStep ==
    ASSUME Sound, InSync, NEW ok \in BOOLEAN, InboundOps(ok)
    PROVE  InSync'
<1> USE InboundIsNoEmail DEF Sound, TypeOK, Members, InboundIsNoEmail, InSync, Entitled, Passes, Ask,
        Nothing
<1>1. ASSUME NEW en \in {"off", "on"}, NEW renewed \in BOOLEAN, UpdateInbound(en, renewed, ok)
      PROVE  InSync'
  BY <1>1 DEF UpdateInbound, Pushed
<1>2. ASSUME NEW S \in SUBSET Emails, NEW offs \in SUBSET S, NEW en \in {"off", "on"},
             AddInbound(S, offs, en, ok)
      PROVE  InSync'
  BY <1>2 DEF AddInbound, Pushed
<1>3. CASE DelInbound(ok)
  BY <1>3 DEF DelInbound
<1> HIDE DEF InSync
<1> QED
  BY <1>1, <1>2, <1>3 DEF InboundOps

(* Whoever is entitled can connect and nobody else can, whenever no restart  *)
(* is asked for or under way, but for those a known gap has touched since    *)
(* Xray was started: every handler and every pass of the traffic job either  *)
(* keeps database and Xray in step or asks for a restart                     *)
(* (inbound.go:553-1301, 1767-1934).                                         *)
THEOREM StaysInStep == Spec => []InSync
<1> USE InboundIsNoEmail DEF InboundIsNoEmail
<1>1. Init => InSync
  BY DEF Init, InSync
<1>2. Sound /\ InSync /\ [Next]_vars => InSync'
  <2> SUFFICES ASSUME Sound, InSync, [Next]_vars PROVE InSync'
    OBVIOUS
  <2>1. CASE UNCHANGED vars
    BY <2>1 DEF vars, InSync, Entitled, Passes
  <2>2. ASSUME NEW e \in Emails, NEW ok \in BOOLEAN, ClientOps(e, ok) PROVE InSync'
    BY <2>2, ClientOpsKeepStep
  <2>3. ASSUME NEW ok \in BOOLEAN, InboundOps(ok) PROVE InSync'
    BY <2>3, InboundOpsKeepStep
  <2>4. ASSUME NEW ok \in BOOLEAN, Jobs(ok) PROVE InSync'
    BY <2>4, JobKeepsStep DEF Jobs
  <2>5. CASE ResetAllClients
    BY <2>5 DEF ResetAllClients, InSync
  <2>6. CASE DelDepleted
    BY <2>6 DEF DelDepleted, Depleted, DeletedRows, InSync, Entitled, Passes, Members, Nothing,
                Sound, TypeOK
  <2>7. CASE RestartRead
    BY <2>7 DEF RestartRead, InSync
  <2>8. ASSUME NEW ok \in BOOLEAN, RestartHousekeep(ok) PROVE InSync'
    BY <2>8 DEF RestartHousekeep, InSync
  <2>9. CASE SkipRestart \/ StartXray
    BY <2>9 DEF SkipRestart, StartXray, InSync, OutOfStep, Entitled, Passes
  <2>10. CASE InboundRunsOut \/ XrayDies \/ \E e \in Emails : Expires(e)
    BY <2>10 DEF InboundRunsOut, XrayDies, Expires, InSync, Entitled, Passes
  <2> QED
    BY <2>1, <2>2, <2>3, <2>4, <2>5, <2>6, <2>7, <2>8, <2>9, <2>10 DEF Next, RestartSteps
<1> QED
  BY <1>1, <1>2, SoundAlways, PTL DEF Spec
===============================================================================
