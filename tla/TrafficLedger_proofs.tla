-------------------------- MODULE TrafficLedger_proofs --------------------------
(***************************************************************************)
(* Proofs about TrafficLedger, for every set of clients and handlers and   *)
(* every quota: type correctness with the discipline of the write lock,    *)
(* that the ledger implements Meter, that the settings and the rows stay   *)
(* in agreement, and that Xray stays in step with both.                    *)
(***************************************************************************)
EXTENDS TrafficLedger, TLAPS

LEMMA IdleIsLocal == Idle \in Locals /\ Idle.pc = "idle" /\ Idle.op = "none"
<1>1. (CHOOSE e \in Emails : TRUE) \in Emails
  BY EmailsFinite
<1>2. NoRow \in Rows /\ NoInb \in Inbounds
  BY DEF NoRow, NoInb, Rows, Inbounds
<1> QED
  BY <1>1, <1>2 DEF Idle, Locals

LEMMA NoJobIsJob ==
    NoJob \in [pc : {"idle", "got", "tx"}, got : [Emails -> Nat], igot : Nat, ask : BOOLEAN]
  BY DEF NoJob, NoCount


(* A step that changes the locals of one handler to r. *)
LEMMA LocalStep ==
    ASSUME TypeOK, NEW t \in Threads, NEW r \in Locals,
           th' = [th EXCEPT ![t] = r],
           r.pc = "commit" <=> lock' = t,
           r.op = "del" => r.inb.list[r.e] > 0,
           \A u \in Threads \ {t} : lock' = u <=> lock = u
    PROVE  /\ th' \in [Threads -> Locals]
           /\ \A u \in Threads : th'[u].pc = "commit" <=> lock' = u
           /\ \A u \in Threads : th'[u].op = "del" => th'[u].inb.list[th'[u].e] > 0
  BY DEF TypeOK

LEMMA RequestsKeepType ==
    ASSUME TypeOK, NEW t \in Threads, NEW e \in Emails,
           ResetRead(t, e) \/ AddCheck(t, e) \/ DelRead(t, e) \/ UpdRead(t, e) \/ InbOpen(t)
    PROVE  TypeOK'
<1>1. Idle \in Locals /\ th \in [Threads -> Locals] /\ Idle.pc = "idle"
  BY IdleIsLocal DEF TypeOK
<1>2. row[e] \in Rows /\ inb \in Inbounds
  BY DEF TypeOK
<1> SUFFICES ASSUME NEW r \in Locals, r.pc # "commit", Begin(t, r),
                    r.op = "del" => r.inb.list[r.e] > 0
             PROVE  TypeOK'
  <2>1. CASE ResetRead(t, e)
    <3> DEFINE r == [Idle EXCEPT !.op = "reset", !.e = e, !.row = row[e],
                                 !.pc = IF row[e].on THEN "save" ELSE "call"]
    <3>1. r \in Locals /\ r.pc # "commit" /\ r.op # "del"
      BY <1>1, <1>2 DEF Locals
    <3> QED BY <2>1, <3>1 DEF ResetRead
  <2>2. CASE AddCheck(t, e)
    <3> DEFINE r == [Idle EXCEPT !.op = "add", !.e = e, !.pc = "read"]
    <3>1. r \in Locals /\ r.pc # "commit" /\ r.op # "del"
      BY <1>1 DEF Locals
    <3> QED BY <2>2, <3>1 DEF AddCheck
  <2>3. CASE DelRead(t, e)
    <3> DEFINE r == [Idle EXCEPT !.op = "del", !.e = e, !.pc = "row", !.inb = inb]
    <3>1. r \in Locals /\ r.pc # "commit" /\ r.inb = inb /\ r.e = e
      BY <1>1, <1>2 DEF Locals
    <3> QED BY <2>3, <3>1 DEF DelRead
  <2>4. CASE UpdRead(t, e)
    <3> DEFINE r == [Idle EXCEPT !.op = "upd", !.e = e, !.pc = "tx", !.inb = inb]
    <3>1. r \in Locals /\ r.pc # "commit" /\ r.op # "del"
      BY <1>1, <1>2 DEF Locals
    <3> QED BY <2>4, <3>1 DEF UpdRead
  <2>5. CASE InbOpen(t)
    <3> DEFINE r == [Idle EXCEPT !.op = "inb", !.pc = "tx", !.inb = inb]
    <3>1. r \in Locals /\ r.pc # "commit" /\ r.op # "del"
      BY <1>1, <1>2 DEF Locals
    <3> QED BY <2>5, <3>1 DEF InbOpen, Page
  <2> QED BY <2>1, <2>2, <2>3, <2>4, <2>5
<1>3. th[t].pc # "commit" /\ lock # t
  BY <1>1 DEF Begin, TypeOK
<1>4. /\ th' \in [Threads -> Locals]
      /\ \A u \in Threads : th'[u].pc = "commit" <=> lock' = u
      /\ \A u \in Threads : th'[u].op = "del" => th'[u].inb.list[th'[u].e] > 0
  BY <1>3, LocalStep DEF Begin
<1> QED
  BY <1>4 DEF TypeOK, Begin

(* A handler goes on: its pc becomes p, and it may have asked for a restart. *)
LEMMA GoStep ==
    ASSUME TypeOK, NEW t \in Threads, NEW a \in BOOLEAN,
           NEW p \in {"idle", "read", "row", "tx", "call", "save", "commit"},
           th' = [th EXCEPT ![t].pc = p, ![t].ask = a] \/ th' = [th EXCEPT ![t].pc = p],
           p = "commit" <=> lock' = t,
           \A u \in Threads \ {t} : lock' = u <=> lock = u
    PROVE  /\ th' \in [Threads -> Locals]
           /\ \A u \in Threads : th'[u].pc = "commit" <=> lock' = u
           /\ \A u \in Threads : th'[u].op = "del" => th'[u].inb.list[th'[u].e] > 0
<1>1. th \in [Threads -> Locals] /\ th[t] \in Locals
  BY DEF TypeOK
<1>2. CASE th' = [th EXCEPT ![t].pc = p]
  <2> DEFINE r == [th[t] EXCEPT !.pc = p]
  <2>1. r \in Locals /\ r.pc = p /\ r.op = th[t].op /\ r.e = th[t].e /\ r.inb = th[t].inb
    BY <1>1 DEF Locals
  <2>2. th' = [th EXCEPT ![t] = r]
    BY <1>1, <1>2
  <2>3. r.op = "del" => r.inb.list[r.e] > 0
    BY <2>1 DEF TypeOK
  <2> HIDE DEF r
  <2> QED BY <2>1, <2>2, <2>3, LocalStep
<1>3. CASE th' = [th EXCEPT ![t].pc = p, ![t].ask = a]
  <2> DEFINE r == [th[t] EXCEPT !.pc = p, !.ask = a]
  <2>1. r \in Locals /\ r.pc = p /\ r.op = th[t].op /\ r.e = th[t].e /\ r.inb = th[t].inb
    BY <1>1 DEF Locals
  <2>2. th' = [th EXCEPT ![t] = r]
    BY <1>1, <1>3
  <2>3. r.op = "del" => r.inb.list[r.e] > 0
    BY <2>1 DEF TypeOK
  <2> HIDE DEF r
  <2> QED BY <2>1, <2>2, <2>3, LocalStep
<1> QED BY <1>2, <1>3

(* A handler returns. *)
LEMMA EndStep ==
    ASSUME TypeOK, NEW t \in Threads,
           th' = [th EXCEPT ![t] = Idle],
           lock' # t,
           \A u \in Threads \ {t} : lock' = u <=> lock = u
    PROVE  /\ th' \in [Threads -> Locals]
           /\ \A u \in Threads : th'[u].pc = "commit" <=> lock' = u
           /\ \A u \in Threads : th'[u].op = "del" => th'[u].inb.list[th'[u].e] > 0
  BY IdleIsLocal, LocalStep

(* What the API does to the users stays a set of users. *)
LEMMA ApiKeepsType ==
    ASSUME NEW r \in [up : BOOLEAN, tag : BOOLEAN, users : SUBSET Emails],
           NEW ok \in BOOLEAN, NEW e \in Emails, NEW S \in SUBSET Emails
    PROVE  /\ AddUser(ok, r, e) \in [up : BOOLEAN, tag : BOOLEAN, users : SUBSET Emails]
           /\ AddErr(ok, r, e) \in BOOLEAN
           /\ DropUsers(ok, r, S) \in [up : BOOLEAN, tag : BOOLEAN, users : SUBSET Emails]
  BY DEF AddUser, AddErr, DropUsers

LEMMA CallsKeepType ==
    ASSUME TypeOK, NEW t \in Threads, NEW ok \in BOOLEAN,
           ResetCall(t, ok) \/ AddTx(t, ok) \/ DelCall(t, ok) \/ UpdTx(t, ok) \/ InbTx(t, ok)
    PROVE  TypeOK'
<1> DEFINE e == th[t].e
<1>1. /\ th[t] \in Locals /\ e \in Emails /\ Free # TheJob /\ Free \notin Threads /\ TheJob \notin Threads
      /\ rt \in [up : BOOLEAN, tag : BOOLEAN, users : SUBSET Emails]
  BY OwnersDiffer DEF TypeOK, Locals
<1> HIDE DEF e
<1>2. CASE ResetCall(t, ok)
  <2>1. lock' = lock /\ lock # t
    BY <1>2, <1>1 DEF ResetCall, At, TypeOK
  <2>2. rt' \in [up : BOOLEAN, tag : BOOLEAN, users : SUBSET Emails] /\ AddErr(ok, rt, e) \in BOOLEAN
    <3>1. /\ AddUser(ok, rt, e) \in [up : BOOLEAN, tag : BOOLEAN, users : SUBSET Emails]
          /\ AddErr(ok, rt, e) \in BOOLEAN
      BY <1>1, ApiKeepsType
    <3>2. rt' = AddUser(ok, rt, e) \/ rt' = rt
      BY <1>2 DEF ResetCall, e
    <3> QED BY <3>1, <3>2, <1>1
  <2>3. \/ th' = [th EXCEPT ![t].pc = "save", ![t].ask = AddErr(ok, rt, e)]
        \/ th' = [th EXCEPT ![t].pc = "save"]
    BY <1>2 DEF ResetCall, Go, e
  <2>4. /\ th' \in [Threads -> Locals]
        /\ \A u \in Threads : th'[u].pc = "commit" <=> lock' = u
        /\ \A u \in Threads : th'[u].op = "del" => th'[u].inb.list[th'[u].e] > 0
    BY <2>1, <2>2, <2>3, GoStep
  <2> QED BY <1>2, <2>2, <2>4 DEF ResetCall, TypeOK, counters
<1>3. CASE AddTx(t, ok)
  <2>1. rt' \in [up : BOOLEAN, tag : BOOLEAN, users : SUBSET Emails] /\ AddErr(ok, rt, e) \in BOOLEAN
    BY <1>3, <1>1, ApiKeepsType DEF AddTx, e
  <2>2. /\ th' \in [Threads -> Locals]
        /\ \A u \in Threads : th'[u].pc = "commit" <=> lock' = u
        /\ \A u \in Threads : th'[u].op = "del" => th'[u].inb.list[th'[u].e] > 0
    BY <1>3, <1>1, <2>1, GoStep DEF AddTx, e
  <2> QED BY <1>3, <1>1, <2>1, <2>2 DEF AddTx, TypeOK, counters
<1>4. CASE DelCall(t, ok)
  <2>1. rt' \in [up : BOOLEAN, tag : BOOLEAN, users : SUBSET Emails] /\ (~ok \/ ~rt.tag) \in BOOLEAN
    BY <1>4, <1>1, ApiKeepsType DEF DelCall, e
  <2>2. lock' = lock /\ lock # t
    BY <1>4, <1>1 DEF DelCall, At, TypeOK
  <2>3. /\ th' \in [Threads -> Locals]
        /\ \A u \in Threads : th'[u].pc = "commit" <=> lock' = u
        /\ \A u \in Threads : th'[u].op = "del" => th'[u].inb.list[th'[u].e] > 0
    BY <1>4, <2>1, <2>2, GoStep DEF DelCall
  <2> QED BY <1>4, <2>1, <2>3 DEF DelCall, TypeOK, counters
<1>5. CASE UpdTx(t, ok)
  <2>1. rt' \in [up : BOOLEAN, tag : BOOLEAN, users : SUBSET Emails] /\ (~ok \/ ~rt.tag) \in BOOLEAN
    <3>1. DropUsers(ok, rt, {e}) \in [up : BOOLEAN, tag : BOOLEAN, users : SUBSET Emails]
      BY <1>1, ApiKeepsType
    <3> QED BY <1>5, <1>1, <3>1, ApiKeepsType DEF UpdTx, e
  <2>2. /\ th' \in [Threads -> Locals]
        /\ \A u \in Threads : th'[u].pc = "commit" <=> lock' = u
        /\ \A u \in Threads : th'[u].op = "del" => th'[u].inb.list[th'[u].e] > 0
    BY <1>5, <1>1, <2>1, GoStep DEF UpdTx
  <2> QED BY <1>5, <1>1, <2>1, <2>2 DEF UpdTx, TypeOK, counters
<1>6. CASE InbTx(t, ok)
  <2> DEFINE page == th[t].inb
  <2>0. page \in Inbounds /\ page.on \in BOOLEAN /\ Listed(page.list) \subseteq Emails
    BY <1>1 DEF Locals, Inbounds, Listed
  <2>1. rt' \in [up : BOOLEAN, tag : BOOLEAN, users : SUBSET Emails] /\ (page.on /\ ~ok) \in BOOLEAN
    BY <1>6, <1>1, <2>0 DEF InbTx
  <2>2. /\ th' \in [Threads -> Locals]
        /\ \A u \in Threads : th'[u].pc = "commit" <=> lock' = u
        /\ \A u \in Threads : th'[u].op = "del" => th'[u].inb.list[th'[u].e] > 0
    BY <1>6, <1>1, <2>1, GoStep DEF InbTx
  <2>3. astray' \subseteq Emails
    BY <1>6 DEF InbTx, TypeOK
  <2> QED BY <1>6, <1>1, <2>1, <2>2, <2>3 DEF InbTx, TypeOK, counters
<1> QED BY <1>2, <1>3, <1>4, <1>5, <1>6

(* What a call of RestartXray does to the rows and the inbound, whether it    *)
(* starts Xray or not, and what it leaves alone.                              *)
LEMMA RestartDoes ==
    ASSUME TypeOK, RestartXray
    PROVE  /\ UNCHANGED <<lock, job, th, born, adrift, caused>> /\ lock = Free /\ need' = FALSE
           /\ row' \in [Emails -> Rows] /\ inb' \in Inbounds
           /\ \A e \in Emails : /\ row'[e].id = row[e].id /\ row'[e].used = row[e].used
                                /\ row'[e].on <=> row[e].on /\ ~Over(e)
           /\ inb'.list = inb.list /\ (inb'.on <=> inb.on /\ ~InbRunsOut)
           /\ rt' \in [up : BOOLEAN, tag : BOOLEAN, users : SUBSET Emails]
           /\ base' \in [tag : BOOLEAN, list : [Emails -> Nat]]
           /\ astray' \subseteq Emails
           /\ (cnt' = NoCount /\ icnt' = 0) \/ UNCHANGED <<cnt, icnt>>
<1>1. row \in [Emails -> Rows] /\ inb \in Inbounds /\ inb.on \in BOOLEAN /\ inb.used \in Nat
  BY DEF TypeOK, Inbounds
<1>2. Housekeep /\ UNCHANGED <<lock, job, th, born, adrift, caused>> /\ lock = Free /\ need' = FALSE
  BY DEF RestartXray, StartAfresh, SkipRestart, counters
<1>3. ASSUME NEW e \in Emails
      PROVE  /\ row'[e] \in Rows /\ row'[e].id = row[e].id /\ row'[e].used = row[e].used
             /\ row'[e].on <=> row[e].on /\ ~Over(e)
  <2>1. CASE Over(e)
    BY <1>1, <1>2, <2>1 DEF Housekeep, Rows
  <2>2. CASE ~Over(e)
    BY <1>1, <1>2, <2>2 DEF Housekeep
  <2> QED BY <2>1, <2>2
<1>4. row' \in [Emails -> Rows]
  BY <1>1, <1>2, <1>3 DEF Housekeep
<1>5. /\ inb' \in Inbounds /\ inb'.list = inb.list
      /\ (inb'.on <=> inb.on /\ inb.used < InbTotal)
  BY <1>1, <1>2 DEF Housekeep, Inbounds
<1>6. inb'.on <=> inb.on /\ ~InbRunsOut
  BY <1>1, <1>5, QuotasNat DEF InbRunsOut
<1>7. HalfDone \subseteq Emails
  BY DEF HalfDone, TypeOK, Locals
<1>8. CASE StartAfresh
  <2>1. rt' \in [up : BOOLEAN, tag : BOOLEAN, users : SUBSET Emails] /\ astray' \subseteq Emails
    BY <1>1, <1>7, <1>8 DEF StartAfresh
  <2>2. Built \in [tag : BOOLEAN, list : [Emails -> Nat]]
    BY <1>1 DEF Built, Inbounds
  <2>3. base' = Built /\ cnt' = NoCount /\ icnt' = 0
    BY <1>8 DEF StartAfresh
  <2> QED BY <1>2, <1>3, <1>4, <1>5, <1>6, <2>1, <2>2, <2>3
<1>9. ASSUME NEW ok \in BOOLEAN, SkipRestart(ok) PROVE
           /\ rt' \in [up : BOOLEAN, tag : BOOLEAN, users : SUBSET Emails]
           /\ astray' \subseteq Emails /\ UNCHANGED <<cnt, icnt, base>>
  <2>1. /\ DropUsers(ok, rt, RunOut) \in [up : BOOLEAN, tag : BOOLEAN, users : SUBSET Emails]
        /\ [rt EXCEPT !.tag = FALSE, !.users = {}] \in [up : BOOLEAN, tag : BOOLEAN, users : SUBSET Emails]
    BY DEF DropUsers, TypeOK
  <2>2. astray' \subseteq Emails
    BY <1>7, <1>9 DEF SkipRestart, OutOfStep, TypeOK
  <2> QED BY <1>9, <2>1, <2>2 DEF SkipRestart
<1>10. base \in [tag : BOOLEAN, list : [Emails -> Nat]]
  BY DEF TypeOK
<1> QED BY <1>2, <1>3, <1>4, <1>5, <1>6, <1>8, <1>9, <1>10 DEF RestartXray

(* Xray, the job and the resets of one statement. *)
LEMMA DataStepsKeepType ==
    ASSUME TypeOK,
           \/ \E e \in Emails : Carry(e) \/ BotReset(e)
           \/ XrayDies \/ RestartXray \/ ResetAll \/ JobRead \/ JobReadLost
           \/ (\E ok \in BOOLEAN : JobCalls(ok)) \/ JobCommit \/ JobFails
    PROVE  TypeOK'
<1>1. /\ NoCount \in [Emails -> Nat] /\ Down \in [up : BOOLEAN, tag : BOOLEAN, users : SUBSET Emails]
      /\ Free # TheJob /\ Free \notin Threads /\ TheJob \notin Threads
  BY OwnersDiffer DEF NoCount, Down
<1>2. ASSUME NEW e \in Emails, Carry(e) PROVE TypeOK'
  BY <1>2 DEF Carry, TypeOK
<1>0. row \in [Emails -> Rows] /\ cnt \in [Emails -> Nat] /\ icnt \in Nat
  BY DEF TypeOK
<1>3. ASSUME NEW S \in SUBSET Emails, Reset(S) PROVE row' \in [Emails -> Rows]
  <2>1. \A e \in Emails : [row[e] EXCEPT !.used = 0, !.on = TRUE] \in Rows
    BY <1>0 DEF Rows
  <2> QED BY <1>0, <1>3, <2>1 DEF Reset
<1>4. ASSUME NEW e \in Emails, BotReset(e) PROVE TypeOK'
  <2>1. row' \in [Emails -> Rows]
    BY <1>3, <1>4 DEF BotReset
  <2> QED BY <1>4, <2>1 DEF BotReset, TypeOK
<1>5. CASE ResetAll
  <2>1. row' \in [Emails -> Rows]
    BY <1>3, <1>5 DEF ResetAll
  <2> QED BY <1>5, <2>1 DEF ResetAll, TypeOK
<1>6. CASE XrayDies
  BY <1>1, <1>6 DEF XrayDies, TypeOK
<1>7. CASE RestartXray
  <2>1. /\ cnt' \in [Emails -> Nat] /\ icnt' \in Nat
        /\ need' \in BOOLEAN /\ UNCHANGED <<lock, job, th, born, adrift, caused>>
    BY <1>0, <1>1, <1>7, RestartDoes
  <2> QED BY <1>1, <1>7, <2>1, RestartDoes DEF TypeOK
<1>8. CASE JobRead
  BY <1>1, <1>8, NoJobIsJob DEF JobRead, LeftAfterRead, TypeOK, counters
<1>9. CASE JobReadLost
  BY <1>1, <1>9 DEF JobReadLost, TypeOK
<1>10. ASSUME NEW ok \in BOOLEAN, JobCalls(ok) PROVE TypeOK'
  <2>1. /\ DropUsers(ok, rt, CutOff) \in [up : BOOLEAN, tag : BOOLEAN, users : SUBSET Emails]
        /\ [rt EXCEPT !.tag = FALSE, !.users = {}] \in [up : BOOLEAN, tag : BOOLEAN, users : SUBSET Emails]
    BY DEF DropUsers, CutOff, TypeOK
  <2>2. rt' \in [up : BOOLEAN, tag : BOOLEAN, users : SUBSET Emails]
    BY <1>10, <2>1 DEF JobCalls
  <2>3. /\ job' \in [pc : {"idle", "got", "tx"}, got : [Emails -> Nat], igot : Nat, ask : BOOLEAN]
        /\ job'.pc = "tx"
    <3>1. (Cuts /\ (~ok \/ ~rt.tag)) \in BOOLEAN
      OBVIOUS
    <3> QED BY <1>10, <3>1 DEF JobCalls, TypeOK
  <2>4. \A t \in Threads : lock' = t <=> lock = t
    BY <1>1, <1>10 DEF JobCalls
  <2> QED BY <1>1, <1>10, <2>2, <2>3, <2>4 DEF JobCalls, TypeOK
<1>11. CASE JobCommit
  <2>1. row' \in [Emails -> Rows]
    <3>1. ASSUME NEW e \in Emails, Here(e)
          PROVE  [row[e] EXCEPT !.used = NewUsed(e), !.on = @ /\ e \notin CutOff] \in Rows
      <4>1. /\ row[e] \in Rows /\ NewUsed(e) \in Nat
            /\ (row[e].on /\ e \notin CutOff) \in BOOLEAN
        BY <3>1 DEF TypeOK, NewUsed, Rows
      <4> QED BY <4>1 DEF Rows
    <3> QED BY <1>11, <3>1 DEF JobCommit, TypeOK
  <2>2. inb' \in Inbounds /\ \A e \in Emails : inb'.list[e] = inb.list[e]
    <3>1. /\ inb \in Inbounds /\ inb.used + job.igot \in Nat
          /\ (inb.on /\ ~CutInbound) \in BOOLEAN
      BY DEF TypeOK, Inbounds
    <3> QED BY <1>11, <3>1 DEF JobCommit, Inbounds
  <2>3. job'.pc = "idle" /\ job' = NoJob
    BY <1>11 DEF JobCommit, NoJob
  <2>4. need' \in BOOLEAN
    BY <1>11 DEF JobCommit, TypeOK
  <2>5. \A t \in Threads : (lock' = t <=> lock = t) /\ th'[t] = th[t]
    BY <1>1, <1>11 DEF JobCommit, Release, TypeOK
  <2>6. lock' = Free
    BY <1>11 DEF JobCommit, Release
  <2>7. /\ th' = th /\ cnt' = cnt /\ icnt' = icnt /\ rt' = rt /\ base' = base /\ born' = born
        /\ adrift' = adrift /\ astray' = astray /\ caused' = caused
    BY <1>11 DEF JobCommit, counters
  <2> HIDE <1>11
  <2> QED BY <1>1, <2>1, <2>2, <2>3, <2>4, <2>5, <2>6, <2>7, NoJobIsJob DEF TypeOK
<1>12. CASE JobFails
  <2>1. job'.pc = "idle" /\ job' = NoJob
    BY <1>12 DEF JobFails, NoJob
  <2>2. need' \in BOOLEAN
    BY <1>12 DEF JobFails, TypeOK
  <2>3. astray' \subseteq Emails
    BY <1>12 DEF JobFails, TypeOK, CutOff
  <2> QED BY <1>1, <1>12, <2>1, <2>2, <2>3, NoJobIsJob DEF JobFails, TypeOK
<1> QED BY <1>2, <1>4, <1>5, <1>6, <1>7, <1>8, <1>9, <1>10, <1>11, <1>12

(* The history variables stay sets of clients. *)
LEMMA Blamed ==
    ASSUME TypeOK, NEW t \in Threads
    PROVE  Clash(t) \subseteq Emails /\ Drifted(t) \subseteq Emails /\ Unsteadied(t) \subseteq Emails
<1>1. \A u \in Threads : th[u].e \in Emails
  BY DEF TypeOK, Locals
<1> QED BY <1>1 DEF Clash, Drifted, Unsteadied

(* A handler that holds the lock ends its transaction and returns. *)
LEMMA CommitStep ==
    ASSUME TypeOK, NEW t \in Threads, th[t].pc = "commit", Release, Return(t)
    PROVE  /\ th' \in [Threads -> Locals] /\ lock' = Free /\ need' \in BOOLEAN
           /\ job.pc # "tx"
           /\ \A u \in Threads : th'[u].pc = "commit" <=> lock' = u
           /\ \A u \in Threads : th'[u].op = "del" => th'[u].inb.list[th'[u].e] > 0
<1>1. lock = t /\ lock' = Free /\ Free \notin Threads /\ t # TheJob
  BY OwnersDiffer DEF Release, TypeOK
<1>2. need' \in BOOLEAN
  BY DEF Return, TypeOK, Locals
<1>3. job.pc # "tx"
  BY <1>1 DEF TypeOK
<1> QED BY <1>1, <1>2, <1>3, EndStep DEF Return

(* One that saves without a transaction returns, or gives up. *)
LEMMA FreeStep ==
    ASSUME TypeOK, NEW t \in Threads, lock = Free, lock' = lock, Return(t) \/ Abort(t)
    PROVE  /\ th' \in [Threads -> Locals] /\ need' \in BOOLEAN
           /\ \A u \in Threads : th'[u].pc = "commit" <=> lock' = u
           /\ \A u \in Threads : th'[u].op = "del" => th'[u].inb.list[th'[u].e] > 0
<1>1. Free \notin Threads
  BY OwnersDiffer
<1>2. need' \in BOOLEAN
  BY DEF Return, Abort, TypeOK, Locals
<1>3. th' = [th EXCEPT ![t] = Idle]
  BY DEF Return, Abort
<1> QED BY <1>1, <1>2, <1>3, EndStep

LEMMA SavesKeepType ==
    ASSUME TypeOK, NEW t \in Threads,
           \/ ResetSave(t) \/ AddRead(t) \/ AddCommit(t) \/ DelRow(t) \/ DelSave(t)
           \/ UpdCommit(t) \/ InbFails(t) \/ InbCommit(t)
    PROVE  TypeOK'
<1> DEFINE e == th[t].e
           page == th[t].inb
<1>1. /\ th[t] \in Locals /\ e \in Emails /\ th[t].row \in Rows /\ page \in Inbounds
      /\ Free # TheJob /\ Free \notin Threads /\ TheJob \notin Threads
      /\ NoRow \in Rows
  BY OwnersDiffer DEF TypeOK, Locals, NoRow, Rows
<1>2. Clash(t) \subseteq Emails /\ Drifted(t) \subseteq Emails /\ Unsteadied(t) \subseteq Emails
  BY Blamed
<1>3. ASSUME NEW list \in [Emails -> Nat], Save(t, list) PROVE inb' \in Inbounds
  BY <1>1, <1>3 DEF Save, Inbounds
<1>4. page.list \in [Emails -> Nat] /\ born \in [Emails -> Nat] /\ row \in [Emails -> Rows]
  BY <1>1 DEF Inbounds, TypeOK
<1>5. \A c \in Emails : NewRow(c) \in Rows
  BY <1>4 DEF NewRow, Rows
<1> HIDE DEF e, page
<1>6. CASE ResetSave(t)
  <2>1. row' \in [Emails -> Rows]
    <3>1. [th[t].row EXCEPT !.used = 0, !.on = TRUE] \in Rows
      BY <1>1 DEF Rows
    <3> QED BY <1>6, <1>1, <1>4, <3>1 DEF ResetSave, e
  <2>2. adrift' \subseteq Emails /\ astray' \subseteq Emails
    BY <1>6, <1>1, <1>2 DEF ResetSave, TypeOK, e
  <2>3. lock = Free /\ lock' = lock /\ (Return(t) \/ Abort(t))
    BY <1>6 DEF ResetSave
  <2>4. /\ th' \in [Threads -> Locals] /\ need' \in BOOLEAN
        /\ \A u \in Threads : th'[u].pc = "commit" <=> lock' = u
        /\ \A u \in Threads : th'[u].op = "del" => th'[u].inb.list[th'[u].e] > 0
    BY <2>3, FreeStep
  <2> QED BY <1>6, <2>1, <2>2, <2>4 DEF ResetSave, TypeOK, counters
<1>7. CASE AddRead(t)
  <2> DEFINE r == [th[t] EXCEPT !.pc = "tx", !.inb = inb]
  <2>1. r \in Locals /\ r.pc = "tx" /\ r.op = "add"
    BY <1>7, <1>1 DEF AddRead, At, TypeOK, Locals
  <2>2. th' = [th EXCEPT ![t] = r] /\ lock' = lock /\ lock # t
    BY <1>7 DEF AddRead, At, TypeOK
  <2> HIDE DEF r
  <2>3. /\ th' \in [Threads -> Locals]
        /\ \A u \in Threads : th'[u].pc = "commit" <=> lock' = u
        /\ \A u \in Threads : th'[u].op = "del" => th'[u].inb.list[th'[u].e] > 0
    BY <2>1, <2>2, LocalStep
  <2> QED BY <1>7, <2>3 DEF AddRead, TypeOK, counters
<1>8. CASE AddCommit(t)
  <2>1. row' \in [Emails -> Rows] /\ born' \in [Emails -> Nat]
    BY <1>8, <1>1, <1>4, <1>5 DEF AddCommit, e
  <2>2. adrift' \subseteq Emails /\ astray' \subseteq Emails
    BY <1>8, <1>1, <1>2 DEF AddCommit, TypeOK, e
  <2>3. inb' \in Inbounds
    <3>1. [page.list EXCEPT ![e] = @ + 1] \in [Emails -> Nat]
      BY <1>1, <1>4
    <3> QED BY <1>8, <1>3, <3>1 DEF AddCommit, e, page
  <2>4. th[t].pc = "commit" /\ Release /\ Return(t)
    BY <1>8 DEF AddCommit, At
  <2>5. /\ th' \in [Threads -> Locals] /\ need' \in BOOLEAN /\ lock' = Free /\ job.pc # "tx"
        /\ \A u \in Threads : th'[u].pc = "commit" <=> lock' = u
        /\ \A u \in Threads : th'[u].op = "del" => th'[u].inb.list[th'[u].e] > 0
    BY <2>4, CommitStep
  <2> QED BY <1>8, <1>1, <2>1, <2>2, <2>3, <2>5 DEF AddCommit, TypeOK, counters
<1>9. CASE DelRow(t)
  <2>1. row' \in [Emails -> Rows]
    BY <1>9, <1>1, <1>4 DEF DelRow, e
  <2>2. lock = Free /\ lock' = lock
    BY <1>9 DEF DelRow
  <2>3. /\ th' \in [Threads -> Locals] /\ need' \in BOOLEAN
        /\ \A u \in Threads : th'[u].pc = "commit" <=> lock' = u
        /\ \A u \in Threads : th'[u].op = "del" => th'[u].inb.list[th'[u].e] > 0
    <3>1. CASE Abort(t)
      BY <2>2, <3>1, FreeStep
    <3>2. CASE ~Abort(t)
      <4>1. Go(t, "call") \/ Go(t, "save")
        BY <1>9, <3>2 DEF DelRow
      <4>2. need' = need /\ lock # t
        BY <1>9, <3>2, <2>2, <1>1 DEF DelRow
      <4>3. CASE Go(t, "call")
        BY <4>2, <4>3, <2>2, <1>1, GoStep DEF Go, TypeOK
      <4>4. CASE Go(t, "save")
        BY <4>2, <4>4, <2>2, <1>1, GoStep DEF Go, TypeOK
      <4> QED BY <4>1, <4>3, <4>4
    <3> QED BY <3>1, <3>2
  <2> QED BY <1>9, <2>1, <2>3 DEF DelRow, TypeOK, counters
<1>10. CASE DelSave(t)
  <2>1. inb' \in Inbounds
    <3>1. page.list[e] - 1 \in Nat
      BY <1>10, <1>1, <1>4 DEF DelSave, At, TypeOK, e, page
    <3>2. [page.list EXCEPT ![e] = @ - 1] \in [Emails -> Nat]
      BY <1>4, <3>1
    <3> QED BY <1>10, <1>3, <3>2 DEF DelSave, e, page
  <2>2. adrift' \subseteq Emails /\ astray' \subseteq Emails
    BY <1>10, <1>1, <1>2 DEF DelSave, TypeOK, e
  <2>3. lock = Free /\ lock' = lock /\ (Return(t) \/ Abort(t))
    BY <1>10 DEF DelSave
  <2>4. /\ th' \in [Threads -> Locals] /\ need' \in BOOLEAN
        /\ \A u \in Threads : th'[u].pc = "commit" <=> lock' = u
        /\ \A u \in Threads : th'[u].op = "del" => th'[u].inb.list[th'[u].e] > 0
    BY <2>3, FreeStep
  <2> QED BY <1>10, <2>1, <2>2, <2>4 DEF DelSave, TypeOK, counters
<1>11. CASE UpdCommit(t)
  <2>1. row' \in [Emails -> Rows]
    BY <1>11, <1>1, <1>4 DEF UpdCommit, Rows, e
  <2>2. adrift' \subseteq Emails /\ astray' \subseteq Emails
    BY <1>11, <1>2 DEF UpdCommit, TypeOK
  <2>3. inb' \in Inbounds
    BY <1>11, <1>3, <1>4 DEF UpdCommit, page
  <2>4. th[t].pc = "commit" /\ Release /\ Return(t)
    BY <1>11 DEF UpdCommit, At
  <2>5. /\ th' \in [Threads -> Locals] /\ need' \in BOOLEAN /\ lock' = Free /\ job.pc # "tx"
        /\ \A u \in Threads : th'[u].pc = "commit" <=> lock' = u
        /\ \A u \in Threads : th'[u].op = "del" => th'[u].inb.list[th'[u].e] > 0
    BY <2>4, CommitStep
  <2> QED BY <1>11, <1>1, <2>1, <2>2, <2>3, <2>5 DEF UpdCommit, TypeOK, counters
<1>12. CASE InbFails(t)
  <2>1. lock = Free /\ lock' = lock /\ (Return(t) \/ Abort(t))
    BY <1>12 DEF InbFails
  <2>2. /\ th' \in [Threads -> Locals] /\ need' \in BOOLEAN
        /\ \A u \in Threads : th'[u].pc = "commit" <=> lock' = u
        /\ \A u \in Threads : th'[u].op = "del" => th'[u].inb.list[th'[u].e] > 0
    BY <2>1, FreeStep
  <2> QED BY <1>12, <2>2 DEF InbFails, TypeOK, counters
<1>13. CASE InbCommit(t)
  <2>1. row' \in [Emails -> Rows] /\ born' \in [Emails -> Nat]
    BY <1>13, <1>1, <1>4, <1>5 DEF InbCommit
  <2>2. adrift' \subseteq Emails /\ astray' \subseteq Emails
    BY <1>13, <1>2 DEF InbCommit, TypeOK, Listed
  <2>3. inb' \in Inbounds
    BY <1>13, <1>3, <1>4 DEF InbCommit, page
  <2>4. th[t].pc = "commit" /\ Release /\ Return(t)
    BY <1>13 DEF InbCommit, At
  <2>5. /\ th' \in [Threads -> Locals] /\ need' \in BOOLEAN /\ lock' = Free /\ job.pc # "tx"
        /\ \A u \in Threads : th'[u].pc = "commit" <=> lock' = u
        /\ \A u \in Threads : th'[u].op = "del" => th'[u].inb.list[th'[u].e] > 0
    BY <2>4, CommitStep
  <2> QED BY <1>13, <1>1, <2>1, <2>2, <2>3, <2>5 DEF InbCommit, TypeOK, counters
<1> QED BY <1>6, <1>7, <1>8, <1>9, <1>10, <1>11, <1>12, <1>13

(* The rows, the counters, the lock and every handler keep their types, the   *)
(* lock is held by whoever is inside a transaction and by nobody else.        *)
THEOREM TypeCorrect == Spec => []TypeOK
<1>1. Init => TypeOK
  <2> SUFFICES ASSUME Init PROVE TypeOK
    OBVIOUS
  <2>1. PICK S \in (SUBSET Emails) \ {{}}, D \in SUBSET Emails :
           /\ inb \in [list : {ListOf(S)}, used : {0, InbTotal - 1}, on : {TRUE}]
           /\ row = [e \in Emails |-> IF e \in S \cup D THEN [id |-> 1, used |-> 0, on |-> TRUE] ELSE NoRow]
           /\ born = ListOf(S \cup D)
           /\ rt = [up |-> TRUE, tag |-> TRUE, users |-> S]
           /\ base = [tag |-> TRUE, list |-> ListOf(S)]
           /\ th = [t \in Threads |-> IF D # {} /\ t = CHOOSE u \in Threads : TRUE
                                      THEN Page([inb EXCEPT !.list = ListOf(S \cup D)]) ELSE Idle]
           /\ adrift = D
    BY DEF Init
  <2>2. ListOf(S) \in [Emails -> Nat] /\ ListOf(S \cup D) \in [Emails -> Nat]
    BY DEF ListOf
  <2>3. inb \in Inbounds
    <3> DEFINE L == ListOf(S)
    <3>1. InbTotal - 1 \in Nat
      BY QuotasNat
    <3>2. inb \in [list : {L}, used : {0, InbTotal - 1}, on : {TRUE}]
      BY <2>1
    <3> HIDE DEF L
    <3>3. /\ inb = [list |-> inb.list, used |-> inb.used, on |-> inb.on]
          /\ inb.list = L /\ inb.used \in {0, InbTotal - 1} /\ inb.on = TRUE
      BY <3>2
    <3>4. inb.used \in Nat
      BY <3>1, <3>3
    <3>5. inb.list \in [Emails -> Nat] /\ inb.on \in BOOLEAN
      BY <2>2, <3>3, Zenon DEF L
    <3> QED BY <3>3, <3>4, <3>5 DEF Inbounds
  <2>4. row \in [Emails -> Rows] /\ born \in [Emails -> Nat]
    BY <2>1, <2>2 DEF Rows, NoRow
  <2>5. /\ rt \in [up : BOOLEAN, tag : BOOLEAN, users : SUBSET Emails]
        /\ base \in [tag : BOOLEAN, list : [Emails -> Nat]]
    BY <2>1, <2>2
  <2>7. /\ th \in [Threads -> Locals]
        /\ \A t \in Threads : th[t].pc \in {"idle", "tx"} /\ th[t].op \in {"none", "inb"}
    <3> DEFINE page == [inb EXCEPT !.list = ListOf(S \cup D)]
    <3>1. page \in Inbounds
      BY <2>2, <2>3 DEF Inbounds
    <3> HIDE DEF page
    <3>2. Page(page) \in Locals /\ Page(page).pc = "tx" /\ Page(page).op = "inb"
      BY <3>1, IdleIsLocal DEF Page, Locals
    <3>3. th = [t \in Threads |-> IF D # {} /\ t = CHOOSE u \in Threads : TRUE THEN Page(page) ELSE Idle]
      BY <2>1 DEF page
    <3> QED BY <3>2, <3>3, IdleIsLocal
  <2>6. job = NoJob /\ job.pc = "idle"
    BY DEF Init, NoJob
  <2>8. adrift \subseteq Emails
    BY <2>1
  <2> QED BY <2>3, <2>4, <2>5, <2>6, <2>7, <2>8, NoJobIsJob, OwnersDiffer DEF Init, TypeOK, NoCount
<1>2. TypeOK /\ [Next]_vars => TypeOK'
  <2> SUFFICES ASSUME TypeOK, [Next]_vars PROVE TypeOK'
    OBVIOUS
  <2>1. CASE UNCHANGED vars
    BY <2>1 DEF vars, TypeOK
  <2>2. ASSUME NEW t \in Threads, Requests(t) PROVE TypeOK'
    BY <2>2, RequestsKeepType, EmailsFinite DEF Requests
  <2>3. ASSUME NEW t \in Threads, HandlerStep(t) PROVE TypeOK'
    BY <2>3, CallsKeepType, SavesKeepType DEF HandlerStep
  <2>4. CASE \/ \E e \in Emails : Carry(e) \/ BotReset(e)
             \/ XrayDies \/ RestartXray \/ ResetAll \/ JobRead \/ JobReadLost
             \/ (\E ok \in BOOLEAN : JobCalls(ok)) \/ JobCommit \/ JobFails
    BY <2>4, DataStepsKeepType
  <2> QED BY <2>1, <2>2, <2>3, <2>4 DEF Next, JobStep
<1> QED BY <1>1, <1>2, PTL DEF Spec

(* Nobody's account changes while Xray's counters and what the job holds stay *)
(* and no row's used traffic is written.                                      *)
LEMMA SameAccount ==
    ASSUME caused' = caused, cnt' = cnt, job' = job,
           \A e \in Emails : row'[e].used = row[e].used
    PROVE  UNCHANGED Account!vars
  BY DEF Account!vars

(* Charges are only taken back, and whole. *)
LEMMA TakenBack ==
    ASSUME TypeOK, caused' = caused, cnt' = cnt, job' = job,
           \A e \in Emails : row'[e].used = row[e].used \/ row'[e].used = 0
    PROVE  Account!Forgive
<1> DEFINE F == {e \in Emails : row'[e].used = 0}
<1>1. F \in SUBSET Emails
  OBVIOUS
<1>2. [e \in Emails |-> row'[e].used]
        = [c \in Emails |-> IF c \in F THEN 0 ELSE [e \in Emails |-> row[e].used][c]]
  OBVIOUS
<1>3. /\ caused' = caused
      /\ [e \in Emails |-> cnt'[e] + job'.got[e]] = [e \in Emails |-> cnt[e] + job.got[e]]
  OBVIOUS
<1> QED BY <1>1, <1>2, <1>3 DEF Account!Forgive

(* Open traffic is charged or lost. *)
LEMMA Settling ==
    ASSUME TypeOK, TypeOK', caused' = caused,
           \A e \in Emails :
              /\ cnt'[e] + job'.got[e] <= cnt[e] + job.got[e]
              /\ row'[e].used >= row[e].used
              /\ row'[e].used - row[e].used <= (cnt[e] + job.got[e]) - (cnt'[e] + job'.got[e])
    PROVE  Account!Settle
<1>1. \A e \in Emails : /\ cnt'[e] + job'.got[e] \in Nat
                        /\ row'[e].used \in Nat
  BY DEF TypeOK, Rows
<1>2. /\ [e \in Emails |-> cnt'[e] + job'.got[e]] \in [Emails -> Nat]
      /\ [e \in Emails |-> row'[e].used] \in [Emails -> Nat]
  BY <1>1
<1> QED BY <1>2 DEF Account!Settle, Account!Settled

(* Every step of Xray and of the job is one of the meter, or none. *)
LEMMA DataStepsImplement ==
    ASSUME TypeOK, TypeOK',
           \/ \E e \in Emails : Carry(e) \/ BotReset(e)
           \/ XrayDies \/ RestartXray \/ ResetAll \/ JobRead \/ JobReadLost
           \/ (\E ok \in BOOLEAN : JobCalls(ok)) \/ JobCommit \/ JobFails
    PROVE  Account!Next \/ UNCHANGED Account!vars
<1>1. /\ \A e \in Emails : cnt[e] \in Nat /\ job.got[e] \in Nat /\ row[e] \in Rows /\ row[e].used \in Nat
      /\ NoCount = [e \in Emails |-> 0] /\ NoJob.got = NoCount
  BY DEF TypeOK, Rows, NoCount, NoJob
<1>2. ASSUME NEW e \in Emails, Carry(e) PROVE Account!Next
  <2>1. /\ caused' = [caused EXCEPT ![e] = @ + 1]
        /\ [c \in Emails |-> cnt'[c] + job'.got[c]]
             = [[c \in Emails |-> cnt[c] + job.got[c]] EXCEPT ![e] = @ + 1]
        /\ [c \in Emails |-> row'[c].used] = [c \in Emails |-> row[c].used]
    <3>1. caused' = [caused EXCEPT ![e] = @ + 1] /\ job' = job /\ row' = row
      BY <1>2 DEF Carry
    <3>2. \A c \in Emails : cnt'[c] = IF c = e THEN cnt[c] + 1 ELSE cnt[c]
      BY <1>2 DEF Carry, TypeOK
    <3> DEFINE open == [c \in Emails |-> cnt[c] + job.got[c]]
    <3>3. \A c \in Emails : cnt'[c] + job'.got[c] = [open EXCEPT ![e] = @ + 1][c]
      BY <1>1, <3>1, <3>2
    <3>4. [c \in Emails |-> cnt'[c] + job'.got[c]] = [open EXCEPT ![e] = @ + 1]
      BY <3>3
    <3> QED BY <3>1, <3>4
  <2>2. Account!Carry(e)
    BY <2>1 DEF Account!Carry
  <2> QED BY <2>2 DEF Account!Next
<1>3. ASSUME NEW S \in SUBSET Emails, Reset(S)
      PROVE  \A e \in Emails : row'[e].used = row[e].used \/ row'[e].used = 0
  BY <1>1, <1>3 DEF Reset, Rows
<1>4. ASSUME NEW e \in Emails, BotReset(e) PROVE Account!Next
  BY <1>3, <1>4, TakenBack DEF BotReset, Account!Next
<1>5. CASE ResetAll
  BY <1>3, <1>5, TakenBack DEF ResetAll, Account!Next
<1>6. CASE XrayDies
  BY <1>1, <1>6, Settling DEF XrayDies, Account!Next
<1>7. CASE RestartXray
  <2>1. /\ \A e \in Emails : row'[e].used = row[e].used
        /\ caused' = caused /\ job' = job
    BY <1>7, RestartDoes
  <2>2. CASE cnt' = NoCount
    BY <1>1, <2>1, <2>2, Settling DEF Account!Next
  <2>3. CASE cnt' = cnt
    <3>1. UNCHANGED Account!vars
      BY <2>1, <2>3 DEF Account!vars
    <3> QED BY <3>1
  <2> QED BY <1>7, <2>2, <2>3, RestartDoes
<1>8. CASE JobRead
  <2>1. job.got = NoCount
    BY <1>1, <1>8 DEF JobRead, TypeOK
  <2>2. caused' = caused /\ row' = row /\ cnt' = NoCount /\ job'.got = cnt
    BY <1>8 DEF JobRead, LeftAfterRead, counters, NoJob
  <2> QED BY <1>1, <2>1, <2>2, Settling DEF Account!Next
<1>9. CASE JobReadLost
  BY <1>1, <1>9, Settling DEF JobReadLost, Account!Next
<1>10. ASSUME NEW ok \in BOOLEAN, JobCalls(ok) PROVE Account!Next \/ UNCHANGED Account!vars
  <2>1. /\ caused' = caused /\ cnt' = cnt /\ row' = row
        /\ job'.got = job.got
    BY <1>10 DEF JobCalls, TypeOK
  <2>2. UNCHANGED Account!vars
    BY <2>1 DEF Account!vars
  <2> QED BY <2>2
<1>11. CASE JobCommit
  <2>1. caused' = caused /\ cnt' = cnt /\ job'.got = NoCount
    BY <1>1, <1>11 DEF JobCommit, counters
  <2>2. \A e \in Emails : \/ row'[e].used = row[e].used
                          \/ row'[e].used = row[e].used + job.got[e]
    <3>1. ASSUME NEW e \in Emails, Here(e)
          PROVE  row'[e].used = row[e].used + job.got[e]
      BY <1>1, <1>11, <3>1 DEF JobCommit, NewUsed, Rows
    <3>2. ASSUME NEW e \in Emails, ~Here(e) PROVE row'[e].used = row[e].used
      BY <1>11, <3>2 DEF JobCommit
    <3> QED BY <3>1, <3>2
  <2> QED BY <1>1, <2>1, <2>2, Settling DEF Account!Next
<1>12. CASE JobFails
  <2>1. caused' = caused /\ cnt' = cnt /\ row' = row /\ job'.got = NoCount
    BY <1>1, <1>12 DEF JobFails
  <2> QED BY <1>1, <2>1, Settling DEF Account!Next
<1> QED BY <1>2, <1>4, <1>5, <1>6, <1>7, <1>8, <1>9, <1>10, <1>11, <1>12

(* Every step of a handler takes a charge back, or none. *)
LEMMA HandlersImplement ==
    ASSUME TypeOK, NEW t \in Threads, Requests(t) \/ HandlerStep(t)
    PROVE  Account!Forgive \/ UNCHANGED Account!vars
<1>1. \A e \in Emails : row[e] \in Rows /\ NoRow.used = 0 /\ NewRow(e).used = 0
  BY DEF TypeOK, NoRow, NewRow
<1>2. th[t] \in Locals /\ th[t].e \in Emails /\ th[t].row \in Rows
  BY DEF TypeOK, Locals
<1>3. CASE Requests(t)
  <2>1. caused' = caused /\ cnt' = cnt /\ job' = job /\ row' = row
    BY <1>3 DEF Requests, ResetRead, AddCheck, DelRead, UpdRead, InbOpen, Begin
  <2> QED BY <2>1, SameAccount
<1>4. ASSUME NEW ok \in BOOLEAN,
             ResetCall(t, ok) \/ AddTx(t, ok) \/ DelCall(t, ok) \/ UpdTx(t, ok) \/ InbTx(t, ok)
      PROVE  UNCHANGED Account!vars
  <2>1. caused' = caused /\ cnt' = cnt /\ job' = job /\ row' = row
    BY <1>4 DEF ResetCall, AddTx, DelCall, UpdTx, InbTx
  <2> QED BY <2>1, SameAccount
<1>5. CASE ResetSave(t)
  <2>1. caused' = caused /\ cnt' = cnt /\ job' = job
    BY <1>5 DEF ResetSave, counters
  <2>2. \A e \in Emails : row'[e].used = row[e].used \/ row'[e].used = 0
    <3>1. [th[t].row EXCEPT !.used = 0, !.on = TRUE].used = 0
      BY <1>2 DEF Rows
    <3> QED BY <1>5, <1>2, <3>1 DEF ResetSave, TypeOK
  <2> QED BY <2>1, <2>2, TakenBack
<1>6. CASE AddRead(t)
  <2>1. caused' = caused /\ cnt' = cnt /\ job' = job /\ row' = row
    BY <1>6 DEF AddRead, counters
  <2> QED BY <2>1, SameAccount
<1>7. CASE AddCommit(t)
  <2>1. caused' = caused /\ cnt' = cnt /\ job' = job
    BY <1>7 DEF AddCommit, counters
  <2>2. \A e \in Emails : row'[e].used = row[e].used \/ row'[e].used = 0
    BY <1>1, <1>2, <1>7 DEF AddCommit, TypeOK
  <2> QED BY <2>1, <2>2, TakenBack
<1>8. CASE DelRow(t)
  <2>1. caused' = caused /\ cnt' = cnt /\ job' = job
    BY <1>8 DEF DelRow, counters
  <2>2. \A e \in Emails : row'[e].used = row[e].used \/ row'[e].used = 0
    BY <1>1, <1>2, <1>8 DEF DelRow, TypeOK
  <2> QED BY <2>1, <2>2, TakenBack
<1>9. CASE DelSave(t)
  <2>1. caused' = caused /\ cnt' = cnt /\ job' = job /\ row' = row
    BY <1>9 DEF DelSave, counters
  <2> QED BY <2>1, SameAccount
<1>10. CASE UpdCommit(t)
  <2>1. caused' = caused /\ cnt' = cnt /\ job' = job
    BY <1>10 DEF UpdCommit, counters
  <2>2. \A e \in Emails : row'[e].used = row[e].used
    BY <1>1, <1>2, <1>10 DEF UpdCommit, TypeOK, Rows
  <2> QED BY <2>1, <2>2, SameAccount
<1>11. CASE InbFails(t)
  <2>1. caused' = caused /\ cnt' = cnt /\ job' = job /\ row' = row
    BY <1>11 DEF InbFails, counters
  <2> QED BY <2>1, SameAccount
<1>12. CASE InbCommit(t)
  <2>1. caused' = caused /\ cnt' = cnt /\ job' = job
    BY <1>12 DEF InbCommit, counters
  <2>2. \A e \in Emails : row'[e].used = row[e].used \/ row'[e].used = 0
    BY <1>1, <1>12 DEF InbCommit
  <2> QED BY <2>1, <2>2, TakenBack
<1> QED BY <1>3, <1>4, <1>5, <1>6, <1>7, <1>8, <1>9, <1>10, <1>11, <1>12 DEF HandlerStep

(* The ledger implements the meter: for every set of clients and handlers,    *)
(* whatever is lost, rolled back or interleaved, no traffic is charged twice, *)
(* none is charged that was not caused, and a charge is taken back whole.     *)
THEOREM ImplementsMeter == Spec => Metered
<1>1. Init => Account!Init
  <2> SUFFICES ASSUME Init PROVE Account!Init
    OBVIOUS
  <2>1. caused = [e \in Emails |-> 0]
    BY DEF Init, NoCount
  <2>2. [e \in Emails |-> cnt[e] + job.got[e]] = [e \in Emails |-> 0]
    BY DEF Init, NoCount, NoJob
  <2>3. \A e \in Emails : row[e].used = 0
    BY DEF Init, NoRow
  <2> QED BY <2>1, <2>2, <2>3 DEF Account!Init
<1>2. TypeOK /\ TypeOK' /\ [Next]_vars => [Account!Next]_(Account!vars)
  <2> SUFFICES ASSUME TypeOK, TypeOK', [Next]_vars
               PROVE  Account!Next \/ UNCHANGED Account!vars
    OBVIOUS
  <2>1. CASE UNCHANGED vars
    BY <2>1, SameAccount DEF vars
  <2>2. ASSUME NEW t \in Threads, Requests(t) \/ HandlerStep(t)
        PROVE  Account!Next \/ UNCHANGED Account!vars
    BY <2>2, HandlersImplement DEF Account!Next
  <2>3. CASE \/ \E e \in Emails : Carry(e) \/ BotReset(e)
             \/ XrayDies \/ RestartXray \/ ResetAll \/ JobRead \/ JobReadLost
             \/ (\E ok \in BOOLEAN : JobCalls(ok)) \/ JobCommit \/ JobFails
    BY <2>3, DataStepsImplement
  <2> QED BY <2>1, <2>2, <2>3 DEF Next, JobStep
<1> QED BY <1>1, <1>2, TypeCorrect, PTL DEF Spec, Metered, Account!Spec

-------------------------------------------------------------------------------
(* Handler t has deleted the row of x, and x from the list not yet.           *)
DeletingBy(t, x) == th[t].op = "del" /\ th[t].pc \in {"call", "save"} /\ th[t].e = x

(* What keeps the list and the row of one client in agreement: every list     *)
(* that a handler has read names him at most once, his row is missing while   *)
(* he is being deleted, and he is being added only while he is not listed.    *)
BooksOf(x) ==
    /\ inb.list[x] \in {0, 1}
    /\ inb.list[x] = 1 <=> (Here(x) \/ \E t \in Threads : DeletingBy(t, x))
    /\ \A t \in Threads : /\ th[t].inb.list[x] \in {0, 1}
                          /\ DeletingBy(t, x) => ~Here(x)
                          /\ th[t].op = "add" /\ th[t].e = x => inb.list[x] = 0

Books == \A x \in Emails \ adrift : BooksOf(x)

LEMMA IdleListsNobody == \A x \in Emails : Idle.inb.list[x] = 0
  BY DEF Idle, NoInb

(* A step that leaves list and row of x as they are, and what one handler     *)
(* does to x as it was.                                                       *)
LEMMA Frame ==
    ASSUME NEW x \in Emails, NEW t \in Threads, BooksOf(x),
           inb'.list[x] = inb.list[x], row'[x].id = row[x].id,
           \A u \in Threads \ {t} : th'[u] = th[u],
           th'[t].inb.list[x] \in {0, 1},
           th'[t].op = "add" /\ th'[t].e = x => inb.list[x] = 0,
           DeletingBy(t, x)' <=> DeletingBy(t, x)
    PROVE  BooksOf(x)'
<1>1. \A u \in Threads : DeletingBy(u, x)' <=> DeletingBy(u, x)
  BY DEF DeletingBy
<1>2. Here(x)' <=> Here(x)
  BY DEF Here
<1>3. \A u \in Threads : /\ th'[u].inb.list[x] \in {0, 1}
                         /\ th'[u].op = "add" /\ th'[u].e = x => inb.list[x] = 0
  BY DEF BooksOf
<1> QED BY <1>1, <1>2, <1>3 DEF BooksOf

(* The same of a step that ends a handler. *)
LEMMA FrameEnd ==
    ASSUME NEW x \in Emails, NEW t \in Threads, TypeOK, BooksOf(x),
           inb'.list[x] = inb.list[x], row'[x].id = row[x].id,
           th' = [th EXCEPT ![t] = Idle], ~DeletingBy(t, x)
    PROVE  BooksOf(x)'
<1>1. th'[t] = Idle /\ \A u \in Threads \ {t} : th'[u] = th[u]
  BY DEF TypeOK
<1>2. th'[t].inb.list[x] \in {0, 1} /\ th'[t].op = "none"
  BY <1>1, IdleIsLocal, IdleListsNobody
<1>3. ~DeletingBy(t, x)'
  BY <1>2 DEF DeletingBy
<1> QED BY <1>1, <1>2, <1>3, Frame

(* Steps of Xray, of the job and of resets change neither a list, nor which   *)
(* rows there are, nor the handlers.                                          *)
LEMMA DataStepsKeepBooks ==
    ASSUME TypeOK, NEW x \in Emails, BooksOf(x),
           \/ \E e \in Emails : Carry(e) \/ BotReset(e)
           \/ XrayDies \/ RestartXray \/ ResetAll \/ JobRead \/ JobReadLost
           \/ (\E ok \in BOOLEAN : JobCalls(ok)) \/ JobCommit \/ JobFails
    PROVE  BooksOf(x)'
<1>1. row[x] \in Rows /\ row \in [Emails -> Rows] /\ inb \in Inbounds
  BY DEF TypeOK
<1>2. ASSUME NEW S \in SUBSET Emails, Reset(S) PROVE row'[x].id = row[x].id
  BY <1>1, <1>2 DEF Reset, Rows
<1>3. row'[x].id = row[x].id /\ inb'.list = inb.list
  <2>1. CASE \E e \in Emails : Carry(e)
    BY <2>1 DEF Carry
  <2>2. CASE \E e \in Emails : BotReset(e)
    BY <2>2, <1>2 DEF BotReset
  <2>3. CASE XrayDies \/ JobRead \/ JobReadLost \/ JobFails \/ \E ok \in BOOLEAN : JobCalls(ok)
    BY <2>3 DEF XrayDies, JobRead, JobReadLost, JobFails, JobCalls
  <2>4. CASE ResetAll
    BY <2>4, <1>2 DEF ResetAll
  <2>5. CASE RestartXray
    BY <2>5, RestartDoes
  <2>6. CASE JobCommit
    BY <2>6, <1>1 DEF JobCommit, Rows, Inbounds
  <2> QED BY <2>1, <2>2, <2>3, <2>4, <2>5, <2>6
<1>4. th' = th
  BY RestartDoes DEF Carry, BotReset, XrayDies, ResetAll, JobRead, JobReadLost, JobCalls,
         JobCommit, JobFails
<1> QED BY <1>3, <1>4 DEF BooksOf, DeletingBy, Here

(* A request begins: whom it adds is not listed, and what it has read is the  *)
(* list as it is.                                                             *)
LEMMA RequestsKeepBooks ==
    ASSUME TypeOK, NEW x \in Emails, BooksOf(x), NEW t \in Threads, Requests(t)
    PROVE  BooksOf(x)'
<1>1. /\ th \in [Threads -> Locals] /\ Idle \in Locals /\ Idle.op = "none"
      /\ Idle.inb.list[x] \in {0, 1} /\ inb.list[x] \in {0, 1}
  BY IdleIsLocal, IdleListsNobody DEF TypeOK, BooksOf
<1>2. inb \in Inbounds /\ \A e \in Emails : row[e] \in Rows
  BY DEF TypeOK
<1> SUFFICES ASSUME NEW r, Begin(t, r), r.inb.list[x] \in {0, 1}, r.op = "del" => r.pc = "row",
                    r.op = "add" /\ r.e = x => inb.list[x] = 0
             PROVE  BooksOf(x)'
  <2>1. ASSUME NEW e \in Emails, ResetRead(t, e) PROVE BooksOf(x)'
    <3> DEFINE r == [Idle EXCEPT !.op = "reset", !.e = e, !.row = row[e],
                                 !.pc = IF row[e].on THEN "save" ELSE "call"]
    <3>1. r.inb.list[x] \in {0, 1} /\ r.op = "reset"
      BY <1>1 DEF Locals
    <3> QED BY <2>1, <3>1 DEF ResetRead
  <2>2. ASSUME NEW e \in Emails, AddCheck(t, e) PROVE BooksOf(x)'
    <3> DEFINE r == [Idle EXCEPT !.op = "add", !.e = e, !.pc = "read"]
    <3>1. r.inb.list[x] \in {0, 1} /\ r.op = "add" /\ r.e = e
      BY <1>1 DEF Locals
    <3> QED BY <2>2, <3>1 DEF AddCheck, EmailIsNew
  <2>3. ASSUME NEW e \in Emails, DelRead(t, e) PROVE BooksOf(x)'
    <3> DEFINE r == [Idle EXCEPT !.op = "del", !.e = e, !.pc = "row", !.inb = inb]
    <3>1. r.inb.list[x] \in {0, 1} /\ r.op = "del" /\ r.pc = "row"
      BY <1>1 DEF Locals
    <3> QED BY <2>3, <3>1 DEF DelRead
  <2>4. ASSUME NEW e \in Emails, UpdRead(t, e) PROVE BooksOf(x)'
    <3> DEFINE r == [Idle EXCEPT !.op = "upd", !.e = e, !.pc = "tx", !.inb = inb]
    <3>1. r.inb.list[x] \in {0, 1} /\ r.op = "upd"
      BY <1>1 DEF Locals
    <3> QED BY <2>4, <3>1 DEF UpdRead
  <2>5. CASE InbOpen(t)
    <3> DEFINE r == [Idle EXCEPT !.op = "inb", !.pc = "tx", !.inb = inb]
    <3>1. r.inb.list[x] \in {0, 1} /\ r.op = "inb"
      BY <1>1 DEF Locals
    <3> QED BY <2>5, <3>1 DEF InbOpen, Page
  <2> QED BY <2>1, <2>2, <2>3, <2>4, <2>5 DEF Requests
<1>3. th[t] = Idle /\ th'[t] = r /\ \A u \in Threads \ {t} : th'[u] = th[u]
  BY <1>1 DEF Begin
<1>4. inb' = inb /\ row' = row
  BY DEF Begin
<1>5. ~DeletingBy(t, x) /\ ~DeletingBy(t, x)'
  BY <1>1, <1>3 DEF DeletingBy
<1> QED BY <1>3, <1>4, <1>5, Frame

(* A call of Xray, or a read, in the middle of a handler. *)
LEMMA CallsKeepBooks ==
    ASSUME TypeOK, NEW x \in Emails, BooksOf(x), NEW t \in Threads,
           \/ \E ok \in BOOLEAN : \/ ResetCall(t, ok) \/ AddTx(t, ok) \/ DelCall(t, ok)
                                  \/ UpdTx(t, ok) \/ InbTx(t, ok)
           \/ AddRead(t)
    PROVE  BooksOf(x)'
<1>1. /\ th \in [Threads -> Locals] /\ th[t] \in Locals
      /\ inb.list[x] \in {0, 1} /\ th[t].inb.list[x] \in {0, 1}
      /\ th[t].op = "add" /\ th[t].e = x => inb.list[x] = 0
  BY DEF TypeOK, BooksOf
<1>2. inb' = inb /\ row' = row
  BY DEF ResetCall, AddTx, DelCall, UpdTx, InbTx, AddRead
<1>3. \A u \in Threads \ {t} : th'[u] = th[u]
  BY <1>1 DEF ResetCall, AddTx, DelCall, UpdTx, InbTx, AddRead, Go
<1>4. th'[t].op = th[t].op /\ th'[t].e = th[t].e
  BY <1>1 DEF ResetCall, AddTx, DelCall, UpdTx, InbTx, AddRead, Go, Locals
<1>5. th'[t].inb \in {th[t].inb, inb}
  BY <1>1 DEF ResetCall, AddTx, DelCall, UpdTx, InbTx, AddRead, Go, Locals
<1>6. th[t].op = "del" => th[t].pc = "call" /\ th'[t].pc = "save"
  BY <1>1 DEF ResetCall, AddTx, DelCall, UpdTx, InbTx, AddRead, At, Locals
<1>7. DeletingBy(t, x)' <=> DeletingBy(t, x)
  BY <1>4, <1>6 DEF DeletingBy
<1> QED BY <1>1, <1>2, <1>3, <1>4, <1>5, <1>7, Frame

(* Whoever is not among the clashes of t has no other handler at work on him, *)
(* if t is.                                                                   *)
LEMMA NoRival ==
    ASSUME NEW x \in Emails, NEW t \in Threads, x \notin Clash(t), th[t].op = "inb" \/ th[t].e = x
    PROVE  \A u \in Threads \ {t} : th[u] = Idle \/ th[u].e # x
  BY DEF Clash

(* A save by t leaves the books of x in order, if the list then agrees with   *)
(* the row.                                                                   *)
LEMMA InOrder ==
    ASSUME TypeOK, NEW x \in Emails, BooksOf(x), NEW t \in Threads,
           th' = [th EXCEPT ![t] = Idle],
           \A u \in Threads \ {t} : th[u] = Idle \/ th[u].e # x,
           inb'.list[x] = IF row'[x].id > 0 THEN 1 ELSE 0
    PROVE  BooksOf(x)'
<1>1. \A u \in Threads : th'[u] = Idle \/ (th'[u] = th[u] /\ th[u].e # x)
  BY DEF TypeOK
<1>2. \A u \in Threads : /\ ~DeletingBy(u, x)'
                         /\ ~(th'[u].op = "add" /\ th'[u].e = x)
  BY <1>1, IdleIsLocal DEF DeletingBy
<1>3. \A u \in Threads : th'[u].inb.list[x] \in {0, 1}
  BY <1>1, IdleListsNobody DEF BooksOf
<1>4. (\E u \in Threads : DeletingBy(u, x))' <=> FALSE
  BY <1>2
<1> QED BY <1>2, <1>3, <1>4 DEF BooksOf, Here

(* The ends of the handlers: whoever's list or row a save overwrites is       *)
(* counted as adrift, of everybody else both are written together.            *)
LEMMA SavesKeepBooks ==
    ASSUME TypeOK, NEW x \in Emails, x \notin adrift', BooksOf(x), NEW t \in Threads,
           \/ ResetSave(t) \/ AddCommit(t) \/ DelRow(t) \/ DelSave(t)
           \/ UpdCommit(t) \/ InbFails(t) \/ InbCommit(t)
    PROVE  BooksOf(x)'
<1> DEFINE e == th[t].e
<1>1. /\ th[t] \in Locals /\ e \in Emails /\ th \in [Threads -> Locals] /\ th[t].row \in Rows
      /\ th[t].inb \in Inbounds /\ inb \in Inbounds /\ row \in [Emails -> Rows] /\ row[x] \in Rows
      /\ born \in [Emails -> Nat] /\ born[x] \in Nat
      /\ inb.list \in [Emails -> Nat] /\ th[t].inb.list \in [Emails -> Nat]
  BY DEF TypeOK, Locals, Inbounds
<1>2. ASSUME NEW list \in [Emails -> Nat], Save(t, list) PROVE inb'.list = list
  BY <1>1, <1>2 DEF Save, Inbounds
<1>3. CASE ResetSave(t)
  <2>1. th' = [th EXCEPT ![t] = Idle] /\ inb' = inb /\ ~DeletingBy(t, x)
    BY <1>3 DEF ResetSave, Return, Abort, At, DeletingBy
  <2>2. row'[x].id = row[x].id
    <3>1. CASE row' = row
      BY <3>1
    <3>2. CASE x # e /\ row' # row
      BY <1>1, <1>3, <3>2 DEF ResetSave
    <3>3. CASE x = e /\ row' # row
      <4>1. /\ row[e].id \in {th[t].row.id, 0}
            /\ row' = [row EXCEPT ![e] = [th[t].row EXCEPT !.used = 0, !.on = TRUE]]
            /\ Here(e)
        BY <1>1, <1>3, <3>3 DEF ResetSave
      <4>2. row[e].id = th[t].row.id
        BY <1>1, <3>3, <4>1 DEF Here, Rows
      <4> QED BY <1>1, <3>3, <4>1, <4>2 DEF Rows
    <3> QED BY <3>1, <3>2, <3>3
  <2> QED BY <2>1, <2>2, FrameEnd
<1>4. CASE InbFails(t)
  <2>1. th' = [th EXCEPT ![t] = Idle] /\ inb' = inb /\ row' = row /\ ~DeletingBy(t, x)
    BY <1>4 DEF InbFails, Abort, At, DeletingBy
  <2> QED BY <2>1, FrameEnd
<1>5. CASE AddCommit(t)
  <2>1. /\ th' = [th EXCEPT ![t] = Idle] /\ ~DeletingBy(t, x) /\ th[t].op = "add"
        /\ x \notin Clash(t) /\ th[t].inb.list[x] = inb.list[x]
    BY <1>5 DEF AddCommit, Return, At, DeletingBy, Drifted
  <2>2. inb'.list = [th[t].inb.list EXCEPT ![e] = @ + 1]
    BY <1>1, <1>2, <1>5 DEF AddCommit
  <2>3. CASE x # e
    <3>1. inb'.list[x] = inb.list[x] /\ row'[x].id = row[x].id
      BY <1>1, <1>5, <2>1, <2>2, <2>3 DEF AddCommit
    <3> QED BY <2>1, <3>1, FrameEnd
  <2>4. CASE x = e
    <3>1. inb.list[x] = 0
      BY <2>1, <2>4 DEF BooksOf
    <3>2. inb'.list[x] = 1
      BY <1>1, <2>1, <2>2, <2>4, <3>1
    <3>3. ~Here(x)
      BY <3>1 DEF BooksOf
    <3>4. row'[x] = NewRow(x)
      BY <1>1, <1>5, <2>4, <3>3 DEF AddCommit
    <3>5. row'[x].id > 0
      BY <1>1, <3>4 DEF NewRow
    <3>6. \A u \in Threads \ {t} : th[u] = Idle \/ th[u].e # x
      BY <2>1, <2>4, NoRival
    <3> QED BY <2>1, <3>2, <3>5, <3>6, InOrder
  <2> QED BY <2>3, <2>4
<1>6. CASE DelRow(t)
  <2>1. th[t].op = "del" /\ th[t].pc = "row" /\ inb' = inb /\ row' = [row EXCEPT ![e] = NoRow]
    BY <1>6 DEF DelRow, At
  <2>2. CASE ~Here(e)
    <3>1. th' = [th EXCEPT ![t] = Idle]
      BY <1>6, <2>2 DEF DelRow, Abort
    <3>2. Here(x)' <=> Here(x)
      BY <1>1, <2>1, <2>2 DEF Here, NoRow
    <3>3. \A u \in Threads : /\ DeletingBy(u, x)' <=> DeletingBy(u, x)
                             /\ th'[u] = th[u] \/ th'[u] = Idle
      BY <1>1, <2>1, <3>1, IdleIsLocal DEF DeletingBy
    <3>4. \A u \in Threads : /\ th'[u].inb.list[x] \in {0, 1}
                             /\ th'[u].op = "add" /\ th'[u].e = x => inb.list[x] = 0
      BY <3>3, IdleIsLocal, IdleListsNobody DEF BooksOf
    <3> QED BY <2>1, <3>2, <3>3, <3>4 DEF BooksOf
  <2>3. CASE Here(e)
    <3> DEFINE p == IF row[e].on THEN "call" ELSE "save"
    <3>1. th' = [th EXCEPT ![t].pc = p]
      BY <1>6, <2>3 DEF DelRow, Go
    <3>2. /\ th'[t].op = "del" /\ th'[t].e = e /\ th'[t].inb = th[t].inb /\ th'[t].pc \in {"call", "save"}
          /\ \A u \in Threads \ {t} : th'[u] = th[u]
      BY <1>1, <2>1, <3>1 DEF Locals
    <3>3. CASE x # e
      <4>1. row'[x] = row[x] /\ ~DeletingBy(t, x) /\ ~DeletingBy(t, x)'
        BY <1>1, <2>1, <3>2, <3>3 DEF DeletingBy
      <4>2. th'[t].inb.list[x] \in {0, 1}
        BY <3>2 DEF BooksOf
      <4> QED BY <2>1, <3>2, <4>1, <4>2, Frame
    <3>4. CASE x = e
      <4>1. DeletingBy(t, x)' /\ ~Here(x)' /\ inb.list[x] = 1
        BY <1>1, <2>1, <2>3, <3>2, <3>4 DEF DeletingBy, Here, NoRow, BooksOf
      <4>2. (\E u \in Threads : DeletingBy(u, x))' <=> TRUE
        BY <4>1
      <4>3. \A u \in Threads : th'[u].inb.list[x] \in {0, 1}
        BY <3>2 DEF BooksOf
      <4>4. \A u \in Threads : ~(th'[u].op = "add" /\ th'[u].e = x)
        BY <3>2, <4>1 DEF BooksOf
      <4> QED BY <2>1, <4>1, <4>2, <4>3, <4>4 DEF BooksOf
    <3> QED BY <3>3, <3>4
  <2> QED BY <2>2, <2>3
<1>7. CASE DelSave(t)
  <2>1. /\ th' = [th EXCEPT ![t] = Idle] /\ row' = row
        /\ th[t].op = "del" /\ th[t].pc = "save"
        /\ x \notin Clash(t) /\ th[t].inb.list[x] = inb.list[x]
    BY <1>7 DEF DelSave, Return, At, Drifted
  <2>2. inb'.list = [th[t].inb.list EXCEPT ![e] = @ - 1]
    <3>1. th[t].inb.list[e] > 0
      BY <2>1 DEF TypeOK
    <3>2. [th[t].inb.list EXCEPT ![e] = @ - 1] \in [Emails -> Nat]
      BY <1>1, <3>1
    <3> QED BY <1>2, <1>7, <3>2 DEF DelSave
  <2>3. CASE x # e
    <3>1. inb'.list[x] = inb.list[x] /\ ~DeletingBy(t, x)
      BY <1>1, <2>1, <2>2, <2>3 DEF DeletingBy
    <3> QED BY <2>1, <3>1, FrameEnd
  <2>4. CASE x = e
    <3>1. DeletingBy(t, x)
      BY <2>1, <2>4 DEF DeletingBy
    <3>2. inb.list[x] = 1 /\ ~Here(x)
      BY <3>1 DEF BooksOf
    <3>3. inb'.list[x] = 0 /\ ~(row'[x].id > 0)
      BY <1>1, <2>1, <2>2, <2>4, <3>2 DEF Here
    <3>4. \A u \in Threads \ {t} : th[u] = Idle \/ th[u].e # x
      BY <2>1, <2>4, NoRival
    <3> QED BY <2>1, <3>3, <3>4, InOrder
  <2> QED BY <2>3, <2>4
<1>8. CASE UpdCommit(t)
  <2>1. /\ th' = [th EXCEPT ![t] = Idle] /\ ~DeletingBy(t, x)
        /\ th[t].inb.list[x] = inb.list[x]
    BY <1>8 DEF UpdCommit, Return, At, DeletingBy, Drifted
  <2>2. inb'.list = th[t].inb.list
    BY <1>1, <1>2, <1>8 DEF UpdCommit
  <2>3. row'[x].id = row[x].id
    BY <1>1, <1>8 DEF UpdCommit, Rows
  <2> QED BY <2>1, <2>2, <2>3, FrameEnd
<1>9. CASE InbCommit(t)
  <2>1. /\ th' = [th EXCEPT ![t] = Idle] /\ th[t].op = "inb" /\ th[t].pc = "commit" /\ x \notin Clash(t)
    BY <1>9 DEF InbCommit, Return, At
  <2>2. inb'.list = th[t].inb.list
    BY <1>1, <1>2, <1>9 DEF InbCommit
  <2>3. \A u \in Threads \ {t} : th[u] = Idle \/ th[u].e # x
    BY <2>1, NoRival
  <2>4. inb.list[x] = IF Here(x) THEN 1 ELSE 0
    <3>1. \A u \in Threads : ~DeletingBy(u, x)
      BY <2>1, <2>3, IdleIsLocal DEF DeletingBy
    <3> QED BY <3>1 DEF BooksOf
  <2>5. th[t].inb.list[x] \in {0, 1}
    BY DEF BooksOf
  <2>6. inb'.list[x] = IF row'[x].id > 0 THEN 1 ELSE 0
    <3>1. row'[x] = IF x \in Gone(t) THEN NoRow ELSE IF x \in New(t) THEN NewRow(x) ELSE row[x]
      BY <1>9 DEF InbCommit
    <3>2. NoRow.id = 0 /\ NewRow(x).id > 0
      BY <1>1 DEF NoRow, NewRow
    <3>3. CASE x \in Gone(t)
      BY <2>2, <2>5, <3>1, <3>2, <3>3 DEF Gone, Listed
    <3>4. CASE x \in New(t)
      BY <2>2, <2>5, <3>1, <3>2, <3>4 DEF Gone, New, Listed
    <3>5. CASE x \notin Gone(t) \cup New(t)
      BY <2>2, <2>4, <2>5, <3>1, <3>5 DEF Gone, New, Listed, Here
    <3> QED BY <3>3, <3>4, <3>5
  <2> QED BY <2>1, <2>3, <2>6, InOrder
<1> QED BY <1>3, <1>4, <1>5, <1>6, <1>7, <1>8, <1>9

(* For every set of clients and handlers: the settings and client_traffics    *)
(* name the same clients, once each, but for those a stale save has           *)
(* overwritten and while one is being deleted (inbound.go:121-139, 553-648,   *)
(* 742-812).                                                                  *)
THEOREM BooksStayInAgreement == Spec => []BooksAgree
<1>1. Init => Books
  <2> SUFFICES ASSUME Init, NEW x \in Emails \ adrift PROVE BooksOf(x)
    BY DEF Books
  <2>1. PICK S \in (SUBSET Emails) \ {{}}, D \in SUBSET Emails :
           /\ inb \in [list : {ListOf(S)}, used : {0, InbTotal - 1}, on : {TRUE}]
           /\ row = [e \in Emails |-> IF e \in S \cup D THEN [id |-> 1, used |-> 0, on |-> TRUE] ELSE NoRow]
           /\ th = [t \in Threads |-> IF D # {} /\ t = CHOOSE u \in Threads : TRUE
                                      THEN Page([inb EXCEPT !.list = ListOf(S \cup D)]) ELSE Idle]
           /\ adrift = D
    BY DEF Init
  <2>2. inb.list[x] = (IF x \in S THEN 1 ELSE 0) /\ (Here(x) <=> x \in S)
    <3> DEFINE L == ListOf(S)
    <3>1. L[x] = IF x \in S THEN 1 ELSE 0
      BY DEF ListOf
    <3> HIDE DEF L
    <3>2. inb.list = L
      BY <2>1 DEF L
    <3>3. Here(x) <=> x \in S
      BY <2>1 DEF Here, NoRow
    <3> QED BY <3>1, <3>2, <3>3
  <2>3. \A t \in Threads : th[t].op \in {"none", "inb"} /\ th[t].inb.list[x] \in {0, 1}
    <3> DEFINE page == [inb EXCEPT !.list = ListOf(S \cup D)]
               L == ListOf(S \cup D)
    <3>1. L[x] \in {0, 1}
      BY DEF ListOf
    <3>2. page.list = L
      <4>1. inb = [list |-> inb.list, used |-> inb.used, on |-> inb.on]
        BY <2>1
      <4> QED BY <4>1
    <3> HIDE DEF page, L
    <3>3. Page(page).op = "inb" /\ Page(page).inb = page
      BY DEF Page, Idle
    <3>4. th = [t \in Threads |-> IF D # {} /\ t = CHOOSE u \in Threads : TRUE THEN Page(page) ELSE Idle]
      BY <2>1 DEF page
    <3> QED BY <3>1, <3>2, <3>3, <3>4, IdleIsLocal, IdleListsNobody
  <2>4. \A t \in Threads : ~DeletingBy(t, x) /\ th[t].op # "add"
    BY <2>3 DEF DeletingBy
  <2> QED BY <2>2, <2>3, <2>4 DEF BooksOf
<1>2. TypeOK /\ Books /\ [Next]_vars => Books'
  <2> SUFFICES ASSUME TypeOK, Books, [Next]_vars, NEW x \in Emails, x \notin adrift'
               PROVE  BooksOf(x)'
    BY DEF Books
  <2>1. adrift \subseteq adrift'
    <3>1. CASE UNCHANGED vars
      BY <3>1 DEF vars
    <3>2. ASSUME NEW t \in Threads, Requests(t) PROVE adrift' = adrift
      BY <3>2 DEF Requests, ResetRead, AddCheck, DelRead, UpdRead, InbOpen, Begin
    <3>3. ASSUME NEW t \in Threads, HandlerStep(t) PROVE adrift \subseteq adrift'
      <4>1. ASSUME NEW ok \in BOOLEAN,
                   ResetCall(t, ok) \/ AddTx(t, ok) \/ DelCall(t, ok) \/ UpdTx(t, ok) \/ InbTx(t, ok)
            PROVE  adrift' = adrift
        BY <4>1 DEF ResetCall, AddTx, DelCall, UpdTx, InbTx
      <4>2. CASE AddRead(t) \/ DelRow(t) \/ InbFails(t)
        BY <4>2 DEF AddRead, DelRow, InbFails
      <4>3. CASE ResetSave(t) \/ AddCommit(t) \/ DelSave(t) \/ UpdCommit(t) \/ InbCommit(t)
        BY <4>3 DEF ResetSave, AddCommit, DelSave, UpdCommit, InbCommit
      <4> QED BY <3>3, <4>1, <4>2, <4>3 DEF HandlerStep
    <3>4. ASSUME NEW e \in Emails, Carry(e) \/ BotReset(e) PROVE adrift' = adrift
      BY <3>4 DEF Carry, BotReset
    <3>5. CASE XrayDies \/ RestartXray \/ ResetAll
      BY <3>5, RestartDoes DEF XrayDies, ResetAll
    <3>6. CASE JobStep \/ JobReadLost \/ JobFails
      BY <3>6 DEF JobStep, JobRead, JobCalls, JobCommit, JobReadLost, JobFails
    <3> QED BY <3>1, <3>2, <3>3, <3>4, <3>5, <3>6 DEF Next
  <2>2. BooksOf(x)
    BY <2>1 DEF Books
  <2>3. CASE UNCHANGED vars
    BY <2>2, <2>3 DEF vars, BooksOf, DeletingBy, Here
  <2>4. ASSUME NEW t \in Threads, Requests(t) PROVE BooksOf(x)'
    BY <2>2, <2>4, RequestsKeepBooks
  <2>5. ASSUME NEW t \in Threads, HandlerStep(t) PROVE BooksOf(x)'
    BY <2>2, <2>5, CallsKeepBooks, SavesKeepBooks DEF HandlerStep
  <2>6. CASE \/ \E e \in Emails : Carry(e) \/ BotReset(e)
             \/ XrayDies \/ RestartXray \/ ResetAll \/ JobRead \/ JobReadLost
             \/ (\E ok \in BOOLEAN : JobCalls(ok)) \/ JobCommit \/ JobFails
    BY <2>2, <2>6, DataStepsKeepBooks
  <2> QED BY <2>3, <2>4, <2>5, <2>6 DEF Next, JobStep
<1>3. Books => BooksAgree
  <2> SUFFICES ASSUME Books, NEW x \in Emails \ adrift
               PROVE  \/ inb.list[x] = IF Here(x) THEN 1 ELSE 0
                      \/ \E t \in Threads : th[t].op = "del" /\ th[t].e = x
    BY DEF BooksAgree
  <2>1. BooksOf(x)
    BY DEF Books
  <2> QED BY <2>1 DEF BooksOf, DeletingBy
<1> QED BY <1>1, <1>2, <1>3, TypeCorrect, PTL DEF Spec

-------------------------------------------------------------------------------
(* Xray keeps in step with the database. *)

Lets(e) == e \in rt.users /\ rt.tag

(* Handler t has told Xray about e and not yet saved what it has told.        *)
Called(t, e) ==
    \/ th[t].pc = "commit" /\ (th[t].op = "inb" \/ (th[t].op \in {"add", "upd"} /\ th[t].e = e))
    \/ th[t].pc = "save" /\ th[t].e = e /\ (th[t].op = "del" \/ (th[t].op = "reset" /\ ~th[t].row.on))

(* Whether the inbound is on once the transaction under way has ended.        *)
OnSoon ==
    IF lock = TheJob THEN inb.on /\ ~CutInbound
    ELSE IF \E t \in Threads : lock = t /\ th[t].op = "inb" THEN th[lock].inb.on ELSE inb.on

(* Whether e is entitled then.                                                *)
EntitledSoon(e) ==
    OnSoon /\ inb.list[e] > 0 /\ (Here(e) => row[e].on /\ ~(lock = TheJob /\ e \in CutOff))

(* What a handler that has called Xray leaves e with when it saves.           *)
Owed(t, e) ==
    CASE th[t].op = "inb" -> th[t].inb.on /\ th[t].inb.list[e] > 0
      [] th[t].op \in {"add", "upd"} -> TRUE
      [] th[t].op = "del" -> FALSE
      [] OTHER -> OnSoon /\ inb.list[e] > 0

(* A restart that will put e right is asked for, or will be.                  *)
Repair(e) ==
    \/ need \/ ~rt.up \/ job.ask
    \/ \E t \in Threads : th[t].ask /\ (th[t].op = "inb" \/ th[t].e = e)

Shape(t) ==
    /\ th[t].op = "reset" => th[t].pc \in {"call", "save"} /\ (th[t].pc = "call" => ~th[t].row.on)
    /\ th[t].op = "upd" => th[t].inb.list[th[t].e] > 0
    /\ th[t].ask => th[t].pc \in {"save", "commit"}

(* What the handlers of e have read is still so.                              *)
RowsKnown(e) ==
    \A t \in Threads : th[t].e = e =>
        /\ th[t].op = "reset" => row[e].id \in {th[t].row.id, 0}
        /\ th[t].op = "reset" /\ ~th[t].row.on /\ ~Repair(e) => ~(Here(e) /\ row[e].on)
        /\ th[t].op = "del" /\ th[t].pc \in {"call", "save"} => ~Here(e)

InStepSoon(e) ==
    ~Repair(e) =>
        /\ rt.tag <=> OnSoon
        /\ (\A t \in Threads : ~Called(t, e)) => (Lets(e) <=> EntitledSoon(e))
        /\ \A t \in Threads : Called(t, e) /\ (\A u \in Threads \ {t} : ~Called(u, e))
                              => (Lets(e) <=> Owed(t, e))

StepOf(e) == RowsKnown(e) /\ InStepSoon(e)

Shapes == (job.pc = "got" => ~job.ask) /\ \A t \in Threads : Shape(t)
Steps == \A e \in Emails \ astray : StepOf(e)

LEMMA IdleIsShaped == Idle.ask = FALSE /\ Idle.op = "none" /\ Idle.pc = "idle"
  BY DEF Idle

(* A step that gives one handler new locals. *)
LEMMA ShapeStep ==
    ASSUME TypeOK, Shapes, NEW t \in Threads, \A u \in Threads \ {t} : th'[u] = th[u], UNCHANGED job,
           th'[t].op = "reset" => th'[t].pc \in {"call", "save"} /\ (th'[t].pc = "call" => ~th'[t].row.on),
           th'[t].op = "upd" => th'[t].inb.list[th'[t].e] > 0,
           th'[t].ask => th'[t].pc \in {"save", "commit"}
    PROVE  Shapes'
  BY DEF Shapes, Shape

LEMMA ShapesKept ==
    ASSUME TypeOK, Shapes, [Next]_vars
    PROVE  Shapes'
<1>1. th \in [Threads -> Locals] /\ Idle \in Locals /\ inb \in Inbounds
  BY IdleIsLocal DEF TypeOK
<1>2. CASE th' = th /\ (job'.pc = "got" => ~job'.ask)
  BY <1>2 DEF Shapes, Shape
<1>3. ASSUME NEW t \in Threads, Requests(t) PROVE Shapes'
  <2> SUFFICES ASSUME NEW r, Begin(t, r), r.ask = FALSE,
                      r.op = "reset" => r.pc \in {"call", "save"} /\ (r.pc = "call" => ~r.row.on),
                      r.op = "upd" => r.inb.list[r.e] > 0
               PROVE  Shapes'
    <3>1. ASSUME NEW e \in Emails, ResetRead(t, e) PROVE Shapes'
      <4> DEFINE r == [Idle EXCEPT !.op = "reset", !.e = e, !.row = row[e],
                                   !.pc = IF row[e].on THEN "save" ELSE "call"]
      <4>1. r.ask = FALSE /\ r.op = "reset" /\ r.row = row[e] /\ r.pc = IF row[e].on THEN "save" ELSE "call"
        BY <1>1, IdleIsShaped DEF Locals
      <4>2. r.pc \in {"call", "save"} /\ (r.pc = "call" => ~r.row.on)
        BY <4>1
      <4> HIDE DEF r
      <4> QED BY <3>1, <4>1, <4>2 DEF ResetRead, r
    <3>2. ASSUME NEW e \in Emails, AddCheck(t, e) PROVE Shapes'
      <4> DEFINE r == [Idle EXCEPT !.op = "add", !.e = e, !.pc = "read"]
      <4>1. r.ask = FALSE /\ r.op = "add"
        BY <1>1, IdleIsShaped DEF Locals
      <4> QED BY <3>2, <4>1 DEF AddCheck
    <3>3. ASSUME NEW e \in Emails, DelRead(t, e) PROVE Shapes'
      <4> DEFINE r == [Idle EXCEPT !.op = "del", !.e = e, !.pc = "row", !.inb = inb]
      <4>1. r.ask = FALSE /\ r.op = "del"
        BY <1>1, IdleIsShaped DEF Locals
      <4> QED BY <3>3, <4>1 DEF DelRead
    <3>4. ASSUME NEW e \in Emails, UpdRead(t, e) PROVE Shapes'
      <4> DEFINE r == [Idle EXCEPT !.op = "upd", !.e = e, !.pc = "tx", !.inb = inb]
      <4>1. r.ask = FALSE /\ r.op = "upd" /\ r.inb = inb /\ r.e = e
        BY <1>1, IdleIsShaped DEF Locals
      <4>2. r.inb.list[r.e] > 0
        BY <3>4, <4>1 DEF UpdRead
      <4> QED BY <3>4, <4>1, <4>2 DEF UpdRead
    <3>5. CASE InbOpen(t)
      <4> DEFINE r == [Idle EXCEPT !.op = "inb", !.pc = "tx", !.inb = inb]
      <4>1. r.ask = FALSE /\ r.op = "inb"
        BY <1>1, IdleIsShaped DEF Locals
      <4> QED BY <3>5, <4>1 DEF InbOpen, Page
    <3> QED BY <1>3, <3>1, <3>2, <3>3, <3>4, <3>5 DEF Requests
  <2>1. th'[t] = r /\ UNCHANGED job /\ \A u \in Threads \ {t} : th'[u] = th[u]
    BY <1>1 DEF Begin
  <2> QED BY <2>1, ShapeStep
<1>4. ASSUME NEW t \in Threads, HandlerStep(t) PROVE Shapes'
  <2>0. UNCHANGED job
    BY <1>4 DEF HandlerStep, ResetCall, AddTx, DelCall, UpdTx, InbTx, ResetSave, AddRead, AddCommit, DelRow,
                DelSave, UpdCommit, InbFails, InbCommit
  <2>1. CASE th' = [th EXCEPT ![t] = Idle]
    <3>1. th'[t] = Idle /\ \A u \in Threads \ {t} : th'[u] = th[u]
      BY <1>1, <2>1
    <3> QED BY <2>0, <3>1, IdleIsShaped, ShapeStep
  <2>2. ASSUME NEW ok \in BOOLEAN,
               ResetCall(t, ok) \/ AddTx(t, ok) \/ DelCall(t, ok) \/ UpdTx(t, ok) \/ InbTx(t, ok)
        PROVE  Shapes'
    <3>1. \A u \in Threads \ {t} : th'[u] = th[u]
      BY <1>1, <2>2 DEF ResetCall, AddTx, DelCall, UpdTx, InbTx, Go
    <3>2. /\ th'[t].pc \in {"save", "commit"} /\ th'[t].op = th[t].op
          /\ th'[t].inb = th[t].inb /\ th'[t].e = th[t].e
          /\ th[t].op = "reset" => th'[t].pc = "save"
      BY <1>1, <2>2 DEF ResetCall, AddTx, DelCall, UpdTx, InbTx, Go, At, Locals
    <3>3. th[t].op = "upd" => th[t].inb.list[th[t].e] > 0
      BY DEF Shapes, Shape
    <3> QED BY <2>0, <3>1, <3>2, <3>3, ShapeStep
  <2>3. CASE AddRead(t)
    <3>1. /\ \A u \in Threads \ {t} : th'[u] = th[u]
          /\ th'[t].op = "add" /\ th'[t].ask = th[t].ask /\ th[t].pc = "read"
      BY <1>1, <2>3 DEF AddRead, At, Locals
    <3>2. ~th[t].ask
      BY <3>1 DEF Shapes, Shape
    <3> QED BY <2>0, <3>1, <3>2, ShapeStep
  <2>4. CASE DelRow(t) /\ th' # [th EXCEPT ![t] = Idle]
    <3>1. /\ \A u \in Threads \ {t} : th'[u] = th[u]
          /\ th'[t].op = "del" /\ th'[t].ask = th[t].ask /\ th[t].pc = "row"
      BY <1>1, <2>4 DEF DelRow, At, Go, Abort, Locals
    <3>2. ~th[t].ask
      BY <3>1 DEF Shapes, Shape
    <3> QED BY <2>0, <3>1, <3>2, ShapeStep
  <2>5. CASE ResetSave(t) \/ AddCommit(t) \/ DelSave(t) \/ UpdCommit(t) \/ InbFails(t) \/ InbCommit(t)
    BY <2>1, <2>5 DEF ResetSave, AddCommit, DelSave, UpdCommit, InbFails, InbCommit, Return, Abort
  <2> QED BY <1>4, <2>1, <2>2, <2>3, <2>4, <2>5 DEF HandlerStep
<1>5. CASE \/ \E e \in Emails : Carry(e) \/ BotReset(e)
           \/ XrayDies \/ RestartXray \/ ResetAll \/ JobRead \/ JobReadLost
           \/ (\E ok \in BOOLEAN : JobCalls(ok)) \/ JobCommit \/ JobFails
  <2>1. th' = th
    BY <1>5, RestartDoes DEF Carry, BotReset, XrayDies, ResetAll, JobRead, JobReadLost, JobCalls,
                JobCommit, JobFails
  <2>2. job'.pc = "got" => ~job'.ask
    <3>1. job \in [pc : {"idle", "got", "tx"}, got : [Emails -> Nat], igot : Nat, ask : BOOLEAN]
      BY DEF TypeOK
    <3>2. NoJob.pc = "idle" /\ NoJob.ask = FALSE
      BY DEF NoJob
    <3>3. CASE JobRead
      BY <3>3 DEF JobRead, NoJob
    <3>4. ASSUME NEW ok \in BOOLEAN, JobCalls(ok) PROVE job'.pc = "tx"
      BY <3>1, <3>4 DEF JobCalls
    <3>5. CASE job' = NoJob
      BY <3>2, <3>5
    <3>6. CASE job' = job
      BY <3>6 DEF Shapes
    <3> QED BY <1>5, <3>3, <3>4, <3>5, <3>6, RestartDoes DEF Carry, BotReset, XrayDies, ResetAll, JobReadLost,
                                                JobCommit, JobFails
  <2> QED BY <1>2, <2>1, <2>2
<1>6. CASE UNCHANGED vars
  BY <1>2, <1>6 DEF vars, Shapes
<1> QED BY <1>3, <1>4, <1>5, <1>6 DEF Next, JobStep

(* What lies ahead of the inbound and of a client, by who holds the lock.     *)
LEMMA Soon ==
    ASSUME TypeOK, NEW e \in Emails
    PROVE  /\ lock = Free => (OnSoon <=> inb.on) /\ (EntitledSoon(e) <=> Entitled(e))
           /\ lock = TheJob => (OnSoon <=> inb.on /\ ~CutInbound)
           /\ lock # TheJob => (EntitledSoon(e) <=> OnSoon /\ inb.list[e] > 0 /\ (Here(e) => row[e].on))
           /\ \A t \in Threads : lock = t => (OnSoon <=> IF th[t].op = "inb" THEN th[t].inb.on ELSE inb.on)
<1>1. lock = Free => lock # TheJob /\ lock \notin Threads
  BY OwnersDiffer
<1>2. \A t \in Threads : t # TheJob
  BY OwnersDiffer
<1> QED BY <1>1, <1>2 DEF OnSoon, EntitledSoon, Entitled

LEMMA SoonAfter ==
    ASSUME TypeOK', NEW e \in Emails
    PROVE  /\ lock' = Free => (OnSoon' <=> inb'.on) /\ (EntitledSoon(e)' <=> Entitled(e)')
           /\ lock' = TheJob => (OnSoon' <=> inb'.on /\ ~CutInbound')
           /\ lock' # TheJob => (EntitledSoon(e)' <=> OnSoon' /\ inb'.list[e] > 0 /\ (Here(e)' => row'[e].on))
           /\ \A t \in Threads : lock' = t => (OnSoon' <=> IF th'[t].op = "inb" THEN th'[t].inb.on ELSE inb'.on)
<1>1. lock' = Free => lock' # TheJob /\ lock' \notin Threads
  BY OwnersDiffer
<1>2. \A t \in Threads : t # TheJob
  BY OwnersDiffer
<1> QED BY <1>1, <1>2 DEF OnSoon, EntitledSoon, Entitled, Here

(* Who has called Xray about e, while nobody is inside a transaction.         *)
LEMMA CalledOutside ==
    ASSUME TypeOK, lock \notin Threads, NEW e \in Emails, NEW t \in Threads, Called(t, e)
    PROVE  th[t].pc = "save" /\ th[t].e = e /\ (th[t].op = "del" \/ (th[t].op = "reset" /\ ~th[t].row.on))
BY DEF Called, TypeOK

(* Handler t has done something that is not about e: the others owe him what  *)
(* they owed.                                                                 *)
LEMMA OthersKeepStep ==
    ASSUME NEW t \in Threads, NEW e \in Emails, InStepSoon(e),
           \A u \in Threads \ {t} : th'[u] = th[u],
           rt'.tag = rt.tag, Lets(e)' <=> Lets(e),
           OnSoon' <=> OnSoon, EntitledSoon(e)' <=> EntitledSoon(e), inb'.list[e] = inb.list[e],
           ~Called(t, e), ~Called(t, e)', Repair(e) => Repair(e)'
    PROVE  InStepSoon(e)'
<1>1. \A u \in Threads \ {t} : Called(u, e)' <=> Called(u, e)
  BY DEF Called
<1>2. \A u \in Threads \ {t} : Owed(u, e)' <=> Owed(u, e)
  BY DEF Owed
<1> QED BY <1>1, <1>2 DEF InStepSoon

(* Nobody moves but the job, Xray or a statement of its own.                  *)
LEMMA AllKeepStep ==
    ASSUME NEW e \in Emails, InStepSoon(e), th' = th,
           rt'.tag = rt.tag, Lets(e)' <=> Lets(e),
           OnSoon' <=> OnSoon, EntitledSoon(e)' <=> EntitledSoon(e), inb'.list[e] = inb.list[e],
           Repair(e) => Repair(e)'
    PROVE  InStepSoon(e)'
<1>1. \A u \in Threads : Called(u, e)' <=> Called(u, e)
  BY DEF Called
<1>2. \A u \in Threads : Owed(u, e)' <=> Owed(u, e)
  BY DEF Owed
<1> QED BY <1>1, <1>2 DEF InStepSoon

(* A restart that is due stays due.                                           *)
LEMMA RepairStays ==
    ASSUME NEW t \in Threads, NEW e \in Emails, \A u \in Threads \ {t} : th'[u] = th[u],
           need => need', rt'.up => rt.up, job.ask => job'.ask \/ need',
           th[t].ask /\ (th[t].op = "inb" \/ th[t].e = e)
               => need' \/ (th'[t].ask /\ th'[t].op = th[t].op /\ th'[t].e = th[t].e)
    PROVE  Repair(e) => Repair(e)'
BY DEF Repair

LEMMA RepairStaysAtRest ==
    ASSUME NEW e \in Emails, th' = th, need => need', rt'.up => rt.up, job.ask => job'.ask \/ need'
    PROVE  Repair(e) => Repair(e)'
BY DEF Repair

(* Whoever is saved last is in step when nobody else is at work on him.       *)
LEMMA AfterSave ==
    ASSUME TypeOK', NEW e \in Emails, NEW t \in Threads, th'[t] = Idle, lock' = Free,
           \A u \in Threads \ {t} : th'[u] = Idle \/ th'[u].e # e,
           ~Repair(e)' => (rt'.tag <=> inb'.on) /\ (Lets(e)' <=> Entitled(e)')
    PROVE  StepOf(e)'
<1>1. \A u \in Threads : th'[u] = Idle \/ th'[u].e # e
  OBVIOUS
<1>2. \A u \in Threads : th'[u].pc # "commit"
  BY OwnersDiffer DEF TypeOK
<1>3. \A u \in Threads : ~Called(u, e)'
  BY <1>1, <1>2, IdleIsLocal DEF Called
<1>4. RowsKnown(e)'
  BY <1>1, IdleIsLocal DEF RowsKnown
<1>5. InStepSoon(e)'
  BY <1>3, SoonAfter DEF InStepSoon
<1> QED BY <1>4, <1>5 DEF StepOf

(* What is known of the rows stays known when the row of e is as it was.      *)
LEMMA RowsStayKnown ==
    ASSUME NEW t \in Threads, NEW e \in Emails, RowsKnown(e),
           \A u \in Threads \ {t} : th'[u] = th[u],
           row'[e].id = row[e].id, row'[e].on = row[e].on, Repair(e) => Repair(e)',
           th'[t].e = e =>
              /\ th'[t].op = "reset" => row'[e].id \in {th'[t].row.id, 0}
              /\ th'[t].op = "reset" /\ ~th'[t].row.on /\ ~Repair(e)' => ~(Here(e)' /\ row'[e].on)
              /\ th'[t].op = "del" /\ th'[t].pc \in {"call", "save"} => ~Here(e)'
    PROVE  RowsKnown(e)'
<1>1. Here(e)' <=> Here(e)
  BY DEF Here
<1> QED BY <1>1 DEF RowsKnown

(* What the calls make of Xray.                                               *)
Runtimes == [up : BOOLEAN, tag : BOOLEAN, users : SUBSET Emails]

LEMMA Added ==
    ASSUME NEW r \in Runtimes, NEW ok \in BOOLEAN, NEW e \in Emails
    PROVE  /\ AddUser(ok, r, e) \in Runtimes
           /\ AddUser(ok, r, e).up = r.up /\ AddUser(ok, r, e).tag = r.tag
           /\ \A z \in Emails : z \in AddUser(ok, r, e).users <=> z \in r.users \/ (ok /\ r.tag /\ z = e)
BY DEF Runtimes, AddUser

LEMMA Dropped ==
    ASSUME NEW r \in Runtimes, NEW ok \in BOOLEAN, NEW e \in Emails
    PROVE  /\ DropUsers(ok, r, {e}) \in Runtimes
           /\ DropUsers(ok, r, {e}).up = r.up /\ DropUsers(ok, r, {e}).tag = r.tag
           /\ \A z \in Emails : z \in DropUsers(ok, r, {e}).users <=> z \in r.users /\ ~(ok /\ z = e)
BY DEF Runtimes, DropUsers

(* Requests that only read, and those that give up.                           *)
LEMMA ReadingKeepsStep ==
    ASSUME TypeOK, TypeOK', Shapes, NEW t \in Threads, NEW e \in Emails, StepOf(e),
           Requests(t) \/ AddRead(t) \/ InbFails(t)
    PROVE  StepOf(e)'
<1>1. th \in [Threads -> Locals]
  BY DEF TypeOK
<1>2. UNCHANGED <<rt, row, inb, lock, job, need>> /\ th[t].pc # "commit" /\ ~th[t].ask
      /\ \A u \in Threads \ {t} : th'[u] = th[u]
  <2>1. CASE Requests(t)
    BY <1>1, <2>1, IdleIsShaped DEF Requests, ResetRead, AddCheck, DelRead, UpdRead, InbOpen, Begin
  <2>2. CASE AddRead(t)
    BY <1>1, <2>2 DEF AddRead, At, Shapes, Shape
  <2>3. CASE InbFails(t)
    BY <1>1, <2>3 DEF InbFails, At, Abort, Shapes, Shape
  <2> QED BY <2>1, <2>2, <2>3
<1> DEFINE Plain == /\ th'[t].pc # "commit"
                    /\ th'[t].op = "reset" => /\ th'[t].row = row[th'[t].e]
                                              /\ th'[t].pc = "save" => th'[t].row.on
                                              /\ th'[t].row.on \/ th'[t].pc = "call"
                    /\ th'[t].op = "del" => th'[t].pc = "row"
<1>3. Plain
  <2>1. ASSUME NEW x \in Emails, ResetRead(t, x) PROVE Plain
    <3> DEFINE r == [Idle EXCEPT !.op = "reset", !.e = x, !.row = row[x],
                                 !.pc = IF row[x].on THEN "save" ELSE "call"]
    <3>1. r.op = "reset" /\ r.e = x /\ r.row = row[x] /\ r.pc = IF row[x].on THEN "save" ELSE "call"
      BY IdleIsLocal DEF Locals
    <3> HIDE DEF r
    <3>2. th'[t] = r
      BY <1>1, <2>1 DEF ResetRead, Begin, r
    <3> QED BY <3>1, <3>2
  <2>2. ASSUME NEW x \in Emails, AddCheck(t, x) PROVE Plain
    <3>1. th'[t].op = "add" /\ th'[t].pc = "read"
      BY <1>1, <2>2, IdleIsLocal DEF AddCheck, Begin, Locals
    <3> QED BY <3>1
  <2>3. ASSUME NEW x \in Emails, DelRead(t, x) PROVE Plain
    <3>1. th'[t].op = "del" /\ th'[t].pc = "row"
      BY <1>1, <2>3, IdleIsLocal DEF DelRead, Begin, Locals
    <3> QED BY <3>1
  <2>4. ASSUME NEW x \in Emails, UpdRead(t, x) PROVE Plain
    <3>1. th'[t].op = "upd" /\ th'[t].pc = "tx"
      BY <1>1, <2>4, IdleIsLocal DEF UpdRead, Begin, Locals
    <3> QED BY <3>1
  <2>5. CASE InbOpen(t)
    <3>1. th'[t].op = "inb" /\ th'[t].pc = "tx"
      BY <1>1, <2>5, IdleIsLocal DEF InbOpen, Begin, Page, Locals
    <3> QED BY <3>1
  <2>6. CASE AddRead(t)
    <3>1. th'[t].op = "add" /\ th'[t].pc = "tx"
      BY <1>1, <2>6 DEF AddRead, At, Locals
    <3> QED BY <3>1
  <2>7. CASE InbFails(t)
    <3>1. th'[t] = Idle
      BY <1>1, <2>7 DEF InbFails, Abort
    <3> QED BY <3>1, IdleIsLocal
  <2> QED BY <2>1, <2>2, <2>3, <2>4, <2>5, <2>6, <2>7 DEF Requests
<1>4. ~Called(t, e)
  <2>1. CASE Requests(t)
    BY <2>1, IdleIsLocal DEF Requests, ResetRead, AddCheck, DelRead, UpdRead, InbOpen, Begin, Called
  <2>2. CASE AddRead(t) \/ InbFails(t)
    BY <2>2 DEF AddRead, InbFails, At, Called
  <2> QED BY <2>1, <2>2
<1>5. ~Called(t, e)'
  BY <1>3 DEF Called
<1>6. Repair(e) => Repair(e)'
  BY <1>2, RepairStays
<1>7. lock # t /\ UNCHANGED <<CutInbound, CutOff>>
  BY <1>2 DEF TypeOK, CutInbound, CutOff, NewUsed, Here
<1>8. (OnSoon' <=> OnSoon) /\ (EntitledSoon(e)' <=> EntitledSoon(e)) /\ (Lets(e)' <=> Lets(e))
  <2>1. OnSoon' <=> OnSoon
    BY <1>2, <1>7 DEF OnSoon
  <2> QED BY <1>2, <1>7, <2>1 DEF EntitledSoon, Here, Lets
<1>9. InStepSoon(e)'
  BY <1>2, <1>4, <1>5, <1>6, <1>8, OthersKeepStep DEF StepOf
<1>10. RowsKnown(e)'
  BY <1>2, <1>3, <1>6, RowsStayKnown DEF StepOf, Here, Shapes, Shape
<1> QED BY <1>9, <1>10 DEF StepOf

(* What the four calls about one client have in common.                       *)
LEMMA CallIsLocal ==
    ASSUME TypeOK, TypeOK', Shapes, NEW t \in Threads, NEW ok \in BOOLEAN,
           ResetCall(t, ok) \/ AddTx(t, ok) \/ DelCall(t, ok) \/ UpdTx(t, ok)
    PROVE  /\ UNCHANGED <<row, inb, job, need>>
           /\ \A u \in Threads \ {t} : th'[u] = th[u]
           /\ th'[t].op = th[t].op /\ th'[t].e = th[t].e /\ th'[t].row = th[t].row
           /\ ~th[t].ask /\ th[t].pc \in {"call", "tx"} /\ th[t].op # "inb"
           /\ (OnSoon' <=> OnSoon)
           /\ \A e \in Emails : EntitledSoon(e)' <=> EntitledSoon(e)
<1>1. th \in [Threads -> Locals] /\ inb \in Inbounds
  BY DEF TypeOK
<1>2. /\ UNCHANGED <<row, inb, job, need>>
      /\ \A u \in Threads \ {t} : th'[u] = th[u]
      /\ th'[t].op = th[t].op /\ th'[t].e = th[t].e /\ th'[t].row = th[t].row
      /\ ~th[t].ask /\ th[t].pc \in {"call", "tx"} /\ th[t].op # "inb"
  BY <1>1 DEF ResetCall, AddTx, DelCall, UpdTx, At, Go, Locals, Shapes, Shape
<1>3. \/ lock' = lock /\ lock # t
      \/ lock = Free /\ lock' = t
  <2>1. lock # t
    BY <1>2 DEF TypeOK
  <2> QED BY <2>1 DEF ResetCall, AddTx, DelCall, UpdTx
<1>4. UNCHANGED <<CutInbound, CutOff>>
  BY <1>2 DEF CutInbound, CutOff, NewUsed, Here
<1>5. OnSoon' <=> OnSoon
  <2>1. CASE lock' = lock /\ lock # t
    BY <1>2, <1>4, <2>1 DEF OnSoon
  <2>2. CASE lock = Free /\ lock' = t
    BY <1>2, <2>2, OwnersDiffer DEF OnSoon
  <2> QED BY <1>3, <2>1, <2>2
<1>6. (lock' = TheJob) <=> (lock = TheJob)
  BY <1>3, OwnersDiffer
<1>7. \A e \in Emails : EntitledSoon(e)' <=> EntitledSoon(e)
  BY <1>2, <1>4, <1>5, <1>6 DEF EntitledSoon, Here
<1> QED BY <1>2, <1>5, <1>7

(* A call for one client leaves Xray as it was towards the others, and either *)
(* it has taken effect or a restart is asked for.                             *)
LEMMA CallKeepsStep ==
    ASSUME TypeOK, TypeOK', Shapes, NEW t \in Threads, NEW ok \in BOOLEAN, NEW e \in Emails, StepOf(e),
           ResetCall(t, ok) \/ AddTx(t, ok) \/ DelCall(t, ok) \/ UpdTx(t, ok)
    PROVE  StepOf(e)'
<1> DEFINE x == th[t].e
<1>1. /\ th \in [Threads -> Locals] /\ inb \in Inbounds
      /\ rt \in Runtimes /\ x \in Emails
  BY DEF TypeOK, Runtimes, Locals
<1>2. /\ UNCHANGED <<row, inb, job, need>>
      /\ \A u \in Threads \ {t} : th'[u] = th[u]
      /\ th'[t].op = th[t].op /\ th'[t].e = x /\ th'[t].row = th[t].row
      /\ ~th[t].ask /\ th[t].pc \in {"call", "tx"} /\ th[t].op # "inb"
      /\ (OnSoon' <=> OnSoon) /\ (EntitledSoon(e)' <=> EntitledSoon(e))
  BY CallIsLocal
<1>3. /\ rt'.up = rt.up /\ rt'.tag = rt.tag
      /\ \A z \in Emails \ {x} : z \in rt'.users <=> z \in rt.users
  <2>1. CASE ResetCall(t, ok) \/ AddTx(t, ok)
    <3>1. rt' \in {rt, AddUser(ok, rt, x)}
      BY <2>1 DEF ResetCall, AddTx
    <3> QED BY <1>1, <3>1, Added, Dropped
  <2>2. CASE DelCall(t, ok)
    <3>1. rt' = DropUsers(ok, rt, {x})
      BY <2>2 DEF DelCall
    <3> QED BY <1>1, <3>1, Added, Dropped
  <2>3. CASE UpdTx(t, ok)
    <3> DEFINE r == DropUsers(ok, rt, {x})
    <3>1. rt' = AddUser(ok, r, x)
      BY <2>3 DEF UpdTx
    <3>2. r \in Runtimes /\ r.up = rt.up /\ r.tag = rt.tag /\ \A z \in Emails \ {x} : z \in r.users <=> z \in rt.users
      BY <1>1, Added, Dropped
    <3> HIDE DEF r
    <3> QED BY <1>1, <3>1, <3>2, Added, Dropped
  <2> QED BY <2>1, <2>2, <2>3
<1>4. Repair(e) => Repair(e)'
  BY <1>2, <1>3, RepairStays
<1>5. ~Called(t, e)
  BY <1>2 DEF Called
<1>6. RowsKnown(e)'
  <2>1. th[t].op = "del" => th[t].pc = "call"
    BY DEF ResetCall, AddTx, DelCall, UpdTx, At
  <2>2. th'[t].e = e => /\ th[t].op = "reset" => row[e].id \in {th[t].row.id, 0}
                        /\ th[t].op = "reset" /\ ~th[t].row.on /\ ~Repair(e)' => ~(Here(e) /\ row[e].on)
                        /\ th[t].op = "del" => ~Here(e)
    BY <1>2, <1>4, <2>1 DEF StepOf, RowsKnown
  <2> QED BY <1>2, <1>4, <2>2, RowsStayKnown DEF StepOf, Here
<1>7. CASE e # x
  <2>1. ~Called(t, e)'
    BY <1>2, <1>7 DEF Called
  <2>2. Lets(e)' <=> Lets(e)
    BY <1>3, <1>7 DEF Lets
  <2>3. InStepSoon(e)'
    BY <1>2, <1>3, <1>4, <1>5, <2>1, <2>2, OthersKeepStep DEF StepOf
  <2> QED BY <1>6, <2>3 DEF StepOf
<1>8. CASE e = x
  <2> SUFFICES ASSUME ~Repair(e)' PROVE InStepSoon(e)'
    BY <1>6 DEF StepOf, InStepSoon
  <2>1. ~th'[t].ask
    BY <1>2, <1>8 DEF Repair
  <2>2. rt.tag <=> OnSoon
    BY <1>4 DEF StepOf, InStepSoon
  <2>3. \A u \in Threads \ {t} : Called(u, e)' <=> Called(u, e)
    BY <1>2 DEF Called
  <2>4. Called(t, e)' /\ ((\A u \in Threads \ {t} : ~Called(u, e)') => (Lets(e)' <=> Owed(t, e)'))
    <3>1. CASE ResetCall(t, ok)
      <4>1. th[t].op = "reset" /\ ~th[t].row.on /\ th'[t].pc = "save"
        BY <1>1, <3>1 DEF ResetCall, At, Go, Locals, Shapes, Shape
      <4>2. Called(t, e)' /\ (Owed(t, e)' <=> OnSoon /\ inb.list[e] > 0)
        BY <1>2, <1>8, <4>1 DEF Called, Owed
      <4>3. CASE inb.list[e] > 0
        <5>1. ok /\ rt.tag
          BY <1>1, <1>8, <2>1, <3>1, <4>3 DEF ResetCall, AddErr, Locals
        <5>2. e \in rt'.users
          BY <1>1, <1>8, <3>1, <4>3, <5>1, Added DEF ResetCall
        <5> QED BY <1>3, <2>2, <4>2, <4>3, <5>1, <5>2 DEF Lets
      <4>4. CASE ~(inb.list[e] > 0)
        <5>1. UNCHANGED rt
          BY <1>8, <3>1, <4>4 DEF ResetCall
        <5>2. (\A u \in Threads \ {t} : ~Called(u, e)') => ~Lets(e)
          BY <1>4, <1>5, <2>3, <4>4 DEF StepOf, InStepSoon, EntitledSoon
        <5> QED BY <4>2, <4>4, <5>1, <5>2 DEF Lets
      <4> QED BY <4>3, <4>4
    <3>2. CASE DelCall(t, ok)
      <4>1. th[t].op = "del" /\ th'[t].pc = "save"
        BY <1>1, <3>2 DEF DelCall, At, Locals
      <4>2. Called(t, e)' /\ ~Owed(t, e)'
        BY <1>2, <1>8, <4>1 DEF Called, Owed
      <4>3. ok
        BY <1>1, <2>1, <3>2 DEF DelCall, Locals
      <4>4. e \notin rt'.users
        BY <1>1, <1>8, <3>2, <4>3 DEF DelCall, DropUsers
      <4> QED BY <4>2, <4>4 DEF Lets
    <3>3. CASE AddTx(t, ok) \/ UpdTx(t, ok)
      <4>1. th[t].op \in {"add", "upd"} /\ th'[t].pc = "commit"
        BY <1>1, <3>3 DEF AddTx, UpdTx, At, Locals
      <4>2. Called(t, e)' /\ Owed(t, e)'
        BY <1>2, <1>8, <4>1 DEF Called, Owed
      <4>3. ok /\ rt.tag
        BY <1>1, <2>1, <3>3 DEF AddTx, UpdTx, AddErr, Locals
      <4>4. e \in rt'.users
        <5>1. CASE AddTx(t, ok)
          BY <1>1, <1>8, <4>3, <5>1, Added, Dropped DEF AddTx
        <5>2. CASE UpdTx(t, ok)
          <6> DEFINE r == DropUsers(ok, rt, {x})
          <6>1. rt' = AddUser(ok, r, x)
            BY <5>2 DEF UpdTx
          <6>2. r \in Runtimes /\ r.tag = rt.tag
            BY <1>1, Added, Dropped
          <6> HIDE DEF r
          <6> QED BY <1>1, <1>8, <4>3, <6>1, <6>2, Added, Dropped
        <5> QED BY <3>3, <5>1, <5>2
      <4> QED BY <1>3, <4>2, <4>3, <4>4 DEF Lets
    <3> QED BY <3>1, <3>2, <3>3
  <2>5. InStepSoon(e)'
    BY <1>2, <1>3, <2>2, <2>4 DEF InStepSoon
  <2> QED BY <2>5
<1> QED BY <1>7, <1>8

(* Handler t ends without having touched e.                                   *)
LEMMA EndsElsewhere ==
    ASSUME TypeOK, TypeOK', NEW t \in Threads, NEW e \in Emails, StepOf(e),
           th'[t] = Idle, \A u \in Threads \ {t} : th'[u] = th[u],
           th[t].op # "inb", th[t].e # e, need => need', UNCHANGED <<rt, job>>,
           inb'.on = inb.on, inb'.list[e] = inb.list[e], row'[e] = row[e],
           lock' = Free, lock \in {Free, t}
    PROVE  StepOf(e)'
<1>1. Repair(e) => Repair(e)'
  BY RepairStays
<1>2. ~Called(t, e) /\ ~Called(t, e)'
  BY IdleIsLocal DEF Called
<1>3. OnSoon' <=> OnSoon
  BY Soon, SoonAfter
<1>4. EntitledSoon(e)' <=> EntitledSoon(e)
  BY <1>3, Soon, SoonAfter, OwnersDiffer DEF Here
<1>5. Lets(e)' <=> Lets(e)
  BY DEF Lets
<1>6. InStepSoon(e)'
  BY <1>1, <1>2, <1>3, <1>4, <1>5, OthersKeepStep DEF StepOf
<1>7. RowsKnown(e)'
  BY <1>1, IdleIsLocal, RowsStayKnown DEF StepOf
<1> QED BY <1>6, <1>7 DEF StepOf

LEMMA ResetSaveKeepsStep ==
    ASSUME TypeOK, TypeOK', Shapes, NEW t \in Threads, NEW e \in Emails, e \notin astray', StepOf(e), ResetSave(t)
    PROVE  StepOf(e)'
<1> DEFINE x == th[t].e
           old == th[t].row
<1>1. /\ th \in [Threads -> Locals] /\ x \in Emails /\ row \in [Emails -> Rows] /\ old \in Rows
  BY DEF TypeOK, Locals
<1>2. /\ UNCHANGED <<rt, inb, lock, job>> /\ lock = Free /\ th[t].op = "reset" /\ th[t].pc = "save"
      /\ th'[t] = Idle /\ \A u \in Threads \ {t} : th'[u] = th[u]
      /\ \A y \in Emails \ {x} : row'[y] = row[y]
  BY <1>1 DEF ResetSave, At, Return, Abort
<1>3. need => need'
  BY DEF ResetSave, Return, Abort
<1>4. CASE e # x
  BY <1>2, <1>3, <1>4, EndsElsewhere
<1>5. CASE e = x
  <2>1. row[e].id \in {old.id, 0}
    BY <1>2, <1>5 DEF StepOf, RowsKnown
  <2>2. /\ row'[e].on /\ need' = (need \/ th[t].ask) /\ e \notin Clash(t)
        /\ Here(e) /\ old.on => row[e].on
    <3>1. /\ row' = [row EXCEPT ![x] = [old EXCEPT !.used = 0, !.on = TRUE]]
          /\ Return(t)
          /\ astray' = astray \cup Clash(t) \cup (IF Here(x) /\ old.on /\ ~row[x].on THEN {x} ELSE {})
      BY <1>5, <2>1 DEF ResetSave
    <3>2. row'[x].on
      BY <1>1, <3>1 DEF Rows
    <3>3. e \notin Clash(t) /\ e \notin (IF Here(x) /\ old.on /\ ~row[x].on THEN {x} ELSE {})
      BY <3>1
    <3>4. Here(e) /\ old.on => row[e].on
      BY <1>5, <3>3
    <3> QED BY <1>5, <3>1, <3>2, <3>3, <3>4 DEF Return
  <2>3. \A u \in Threads \ {t} : th[u] = Idle \/ th[u].e # e
    BY <1>5, <2>2, NoRival
  <2>4. \A u \in Threads \ {t} : ~Called(u, e)
    BY <1>2, <2>3, CalledOutside, IdleIsLocal, OwnersDiffer
  <2>5. ASSUME ~Repair(e)' PROVE (rt'.tag <=> inb'.on) /\ (Lets(e)' <=> Entitled(e)')
    <3>1. ~Repair(e)
      BY <1>2, <1>5, <2>2, <2>5, RepairStays
    <3>2. rt.tag <=> inb.on
      BY <1>2, <3>1, Soon DEF StepOf, InStepSoon
    <3>3. Lets(e) <=> inb.on /\ inb.list[e] > 0
      <4>1. CASE old.on
        <5>1. ~Called(t, e)
          BY <1>2, <4>1 DEF Called
        <5>2. Lets(e) <=> Entitled(e)
          BY <1>2, <2>4, <3>1, <5>1, Soon DEF StepOf, InStepSoon
        <5> QED BY <2>2, <4>1, <5>2 DEF Entitled
      <4>2. CASE ~old.on
        <5>1. Called(t, e)
          BY <1>2, <1>5, <4>2 DEF Called
        <5> QED BY <1>2, <2>4, <3>1, <5>1, Soon DEF StepOf, InStepSoon, Owed
      <4> QED BY <4>1, <4>2
    <3> QED BY <1>2, <2>2, <3>2, <3>3 DEF Lets, Entitled
  <2> QED BY <1>2, <2>3, <2>5, AfterSave
<1> QED BY <1>4, <1>5

LEMMA DelRowKeepsStep ==
    ASSUME TypeOK, TypeOK', Shapes, NEW t \in Threads, NEW e \in Emails, StepOf(e), DelRow(t)
    PROVE  StepOf(e)'
<1> DEFINE x == th[t].e
<1>1. th \in [Threads -> Locals] /\ x \in Emails /\ row \in [Emails -> Rows]
  BY DEF TypeOK, Locals
<1>2. /\ UNCHANGED <<rt, inb, lock, job, need>> /\ lock = Free /\ lock' # TheJob
      /\ th[t].op = "del" /\ th[t].pc = "row" /\ ~th[t].ask
      /\ \A u \in Threads \ {t} : th'[u] = th[u]
      /\ row' = [row EXCEPT ![x] = NoRow]
  BY <1>1, OwnersDiffer DEF DelRow, At, Go, Abort, Shapes, Shape
<1>3. \/ th'[t] = Idle /\ ~Here(x)
      \/ /\ th'[t].op = "del" /\ th'[t].e = x /\ Here(x)
         /\ th'[t].pc = IF row[x].on THEN "call" ELSE "save"
  <2>1. CASE Here(x)
    <3>1. th' = [th EXCEPT ![t].pc = IF row[x].on THEN "call" ELSE "save"] /\ th[t].op = "del"
      BY <2>1 DEF DelRow, Go, At
    <3>2. th[t] \in Locals
      BY <1>1
    <3> QED BY <1>1, <2>1, <3>1, <3>2 DEF Locals
  <2>2. CASE ~Here(x)
    BY <1>1, <2>2 DEF DelRow, Abort
  <2> QED BY <2>1, <2>2
<1>4. Repair(e) => Repair(e)'
  BY <1>2, RepairStays
<1>5. ~Called(t, e)
  BY <1>2 DEF Called
<1>6. OnSoon' <=> OnSoon
  BY <1>2, Soon, SoonAfter
<1>7. \A u \in Threads \ {t} : (Called(u, e)' <=> Called(u, e)) /\ (Owed(u, e)' <=> Owed(u, e))
  BY <1>2, <1>6 DEF Called, Owed
<1>8. e = x => ~Here(e)'
  BY <1>1, <1>2 DEF NoRow, Here
<1>9. e # x => row'[e] = row[e]
  BY <1>1, <1>2
<1>10. RowsKnown(e)'
  <2>1. CASE e # x
    BY <1>2, <1>3, <1>4, <1>9, <2>1, IdleIsLocal, RowsStayKnown DEF StepOf
  <2>2. CASE e = x
    <3>1. row'[e].id = 0
      BY <1>1, <1>2, <2>2 DEF NoRow
    <3> QED BY <1>8, <2>2, <3>1 DEF RowsKnown
  <2> QED BY <2>1, <2>2
<1>11. InStepSoon(e)'
  <2> SUFFICES ASSUME ~Repair(e)' PROVE InStepSoon(e)'
    BY DEF InStepSoon
  <2>1. rt.tag <=> OnSoon
    BY <1>4 DEF StepOf, InStepSoon
  <2>2. (\A u \in Threads \ {t} : ~Called(u, e)') => (Lets(e) <=> OnSoon /\ inb.list[e] > 0 /\ (Here(e) => row[e].on))
    BY <1>2, <1>4, <1>5, <1>7, Soon, OwnersDiffer DEF StepOf, InStepSoon
  <2>3. EntitledSoon(e)' <=> OnSoon /\ inb.list[e] > 0 /\ (Here(e)' => row'[e].on)
    BY <1>2, <1>6, SoonAfter
  <2>4. Lets(e)' <=> Lets(e)
    BY <1>2 DEF Lets
  <2>5. Called(t, e)' <=> e = x /\ Here(e) /\ ~row[e].on
    BY <1>3, IdleIsLocal DEF Called
  <2>6. Called(t, e)' => ~Owed(t, e)'
    BY <1>3, IdleIsLocal DEF Called, Owed
  <2>7. (\A u \in Threads : ~Called(u, e)') => (Lets(e)' <=> EntitledSoon(e)')
    BY <1>8, <1>9, <2>2, <2>3, <2>4, <2>5 DEF Here
  <2>8. ASSUME NEW u \in Threads, Called(u, e)', \A v \in Threads \ {u} : ~Called(v, e)'
        PROVE  Lets(e)' <=> Owed(u, e)'
    <3>1. CASE u = t
      BY <2>2, <2>4, <2>5, <2>6, <2>8, <3>1
    <3>2. CASE u # t
      BY <1>4, <1>5, <1>7, <2>4, <2>8, <3>2 DEF StepOf, InStepSoon
    <3> QED BY <3>1, <3>2
  <2> QED BY <1>2, <1>6, <2>1, <2>7, <2>8 DEF InStepSoon
<1> QED BY <1>10, <1>11 DEF StepOf

(* A save that finds the inbound as the handler has read it changes nothing   *)
(* for the others.                                                            *)
LEMMA SaveIsFresh ==
    ASSUME TypeOK, NEW t \in Threads, NEW e \in Emails, NEW list \in [Emails -> Nat],
           Save(t, list), e \notin Unsteadied(t)
    PROVE  inb'.on = th[t].inb.on /\ inb'.list = list /\ inb.on = th[t].inb.on /\ th[t].inb.list[e] = inb.list[e]
<1>1. th[t].inb \in Inbounds
  BY DEF TypeOK, Locals
<1>2. inb'.on = th[t].inb.on /\ inb'.list = list
  BY <1>1 DEF Save, Inbounds
<1> QED BY <1>2 DEF Unsteadied, Drifted

LEMMA AddCommitKeepsStep ==
    ASSUME TypeOK, TypeOK', Shapes, NEW t \in Threads, NEW e \in Emails, e \notin astray', StepOf(e), AddCommit(t)
    PROVE  StepOf(e)'
<1> DEFINE x == th[t].e
           list == [th[t].inb.list EXCEPT ![x] = @ + 1]
<1>1. /\ th \in [Threads -> Locals] /\ x \in Emails /\ row \in [Emails -> Rows]
      /\ th[t].inb.list \in [Emails -> Nat] /\ list \in [Emails -> Nat]
  BY DEF TypeOK, Locals, Inbounds
<1>2. /\ UNCHANGED <<rt, job>> /\ th[t].op = "add" /\ th[t].pc = "commit" /\ Save(t, list)
      /\ th'[t] = Idle /\ \A u \in Threads \ {t} : th'[u] = th[u]
      /\ need' = (need \/ th[t].ask) /\ lock' = Free
      /\ row' = IF Here(x) THEN row ELSE [row EXCEPT ![x] = NewRow(x)]
      /\ e \notin Clash(t) /\ e \notin Unsteadied(t)
      /\ e \notin (IF Here(x) /\ ~row[x].on THEN {x} ELSE {})
  BY <1>1 DEF AddCommit, At, Return, Release
<1>3. lock = t
  BY <1>2 DEF TypeOK
<1>4. inb'.on = inb.on /\ inb'.list = list /\ th[t].inb.list[e] = inb.list[e]
  BY <1>1, <1>2, SaveIsFresh
<1>5. CASE e # x
  <2>1. row'[e] = row[e] /\ inb'.list[e] = inb.list[e]
    BY <1>1, <1>2, <1>4, <1>5
  <2> QED BY <1>2, <1>3, <1>4, <1>5, <2>1, EndsElsewhere
<1>6. CASE e = x
  <2>1. \A u \in Threads \ {t} : th[u] = Idle \/ th[u].e # e
    BY <1>2, <1>6, NoRival
  <2>2. /\ inb'.list[e] > 0
        /\ Here(e)' => row'[e].on
    BY <1>1, <1>2, <1>4, <1>6 DEF NewRow, Here
  <2>3. \A u \in Threads \ {t} : ~Called(u, e)
    BY <1>3, <2>1, IdleIsLocal DEF Called, TypeOK
  <2>4. Called(t, e) /\ Owed(t, e)
    BY <1>2, <1>6 DEF Called, Owed
  <2>5. ASSUME ~Repair(e)' PROVE (rt'.tag <=> inb'.on) /\ (Lets(e)' <=> Entitled(e)')
    <3>1. ~Repair(e)
      BY <1>2, <1>6, <2>5, RepairStays
    <3>2. (rt.tag <=> inb.on) /\ Lets(e)
      BY <1>2, <1>3, <2>3, <2>4, <3>1, Soon DEF StepOf, InStepSoon
    <3> QED BY <1>2, <1>4, <2>2, <3>2 DEF Lets, Entitled
  <2> QED BY <1>2, <2>1, <2>5, AfterSave
<1> QED BY <1>5, <1>6

LEMMA DelSaveKeepsStep ==
    ASSUME TypeOK, TypeOK', Shapes, NEW t \in Threads, NEW e \in Emails, e \notin astray', StepOf(e), DelSave(t)
    PROVE  StepOf(e)'
<1> DEFINE x == th[t].e
           list == [th[t].inb.list EXCEPT ![x] = @ - 1]
<1>1. /\ th \in [Threads -> Locals] /\ x \in Emails
      /\ th[t].inb.list \in [Emails -> Nat] /\ th[t].op = "del"
  BY DEF TypeOK, Locals, Inbounds, DelSave, At
<1>2. list \in [Emails -> Nat] /\ th[t].inb.list[x] > 0
  BY <1>1 DEF TypeOK
<1>3. /\ UNCHANGED <<rt, row, job>> /\ lock = Free /\ lock' = Free /\ th[t].pc = "save" /\ Save(t, list)
      /\ th'[t] = Idle /\ \A u \in Threads \ {t} : th'[u] = th[u]
      /\ need' = (need \/ th[t].ask)
      /\ e \notin Clash(t) /\ e \notin Unsteadied(t)
      /\ e \notin (IF th[t].inb.list[x] > 1 THEN {x} ELSE {})
  BY <1>1 DEF DelSave, At, Return
<1>4. inb'.on = inb.on /\ inb'.list = list /\ th[t].inb.list[e] = inb.list[e]
  BY <1>1, <1>2, <1>3, SaveIsFresh
<1>5. CASE e # x
  <2>1. inb'.list[e] = inb.list[e]
    BY <1>1, <1>4, <1>5
  <2> QED BY <1>1, <1>3, <1>4, <1>5, <2>1, EndsElsewhere
<1>6. CASE e = x
  <2>1. \A u \in Threads \ {t} : th[u] = Idle \/ th[u].e # e
    BY <1>3, <1>6, NoRival
  <2>2. inb'.list[e] = 0
    BY <1>1, <1>2, <1>3, <1>4, <1>6
  <2>3. \A u \in Threads \ {t} : ~Called(u, e)
    BY <1>3, <2>1, CalledOutside, IdleIsLocal, OwnersDiffer
  <2>4. Called(t, e) /\ ~Owed(t, e)
    BY <1>1, <1>3, <1>6 DEF Called, Owed
  <2>5. ASSUME ~Repair(e)' PROVE (rt'.tag <=> inb'.on) /\ (Lets(e)' <=> Entitled(e)')
    <3>1. ~Repair(e)
      BY <1>3, <1>6, <2>5, RepairStays
    <3>2. (rt.tag <=> inb.on) /\ ~Lets(e)
      BY <1>3, <2>3, <2>4, <3>1, Soon DEF StepOf, InStepSoon
    <3> QED BY <1>3, <1>4, <2>2, <3>2 DEF Lets, Entitled
  <2> QED BY <1>3, <2>1, <2>5, AfterSave
<1> QED BY <1>5, <1>6

LEMMA UpdCommitKeepsStep ==
    ASSUME TypeOK, TypeOK', Shapes, NEW t \in Threads, NEW e \in Emails, e \notin astray', StepOf(e), UpdCommit(t)
    PROVE  StepOf(e)'
<1> DEFINE x == th[t].e
<1>1. /\ th \in [Threads -> Locals] /\ x \in Emails /\ row \in [Emails -> Rows]
      /\ th[t].inb.list \in [Emails -> Nat]
  BY DEF TypeOK, Locals, Inbounds
<1>2. /\ UNCHANGED <<rt, job>> /\ th[t].op = "upd" /\ th[t].pc = "commit" /\ Save(t, th[t].inb.list)
      /\ th'[t] = Idle /\ \A u \in Threads \ {t} : th'[u] = th[u]
      /\ need' = (need \/ th[t].ask) /\ lock' = Free
      /\ row' = IF Here(x) THEN [row EXCEPT ![x].on = TRUE] ELSE row
      /\ e \notin Clash(t) /\ e \notin Unsteadied(t)
  BY <1>1 DEF UpdCommit, At, Return, Release
<1>3. lock = t
  BY <1>2 DEF TypeOK
<1>4. inb'.on = inb.on /\ inb'.list[e] = inb.list[e] /\ th[t].inb.list[e] = inb.list[e]
  BY <1>1, <1>2, SaveIsFresh
<1>5. CASE e # x
  <2>1. row'[e] = row[e]
    BY <1>1, <1>2, <1>5
  <2> QED BY <1>2, <1>3, <1>4, <1>5, <2>1, EndsElsewhere
<1>6. CASE e = x
  <2>1. \A u \in Threads \ {t} : th[u] = Idle \/ th[u].e # e
    BY <1>2, <1>6, NoRival
  <2>2. inb'.list[e] > 0
    BY <1>2, <1>4, <1>6 DEF Shapes, Shape
  <2>3. Here(e)' => row'[e].on
    BY <1>1, <1>2, <1>6 DEF Here, Rows
  <2>4. \A u \in Threads \ {t} : ~Called(u, e)
    BY <1>3, <2>1, IdleIsLocal DEF Called, TypeOK
  <2>5. Called(t, e) /\ Owed(t, e)
    BY <1>2, <1>6 DEF Called, Owed
  <2>6. ASSUME ~Repair(e)' PROVE (rt'.tag <=> inb'.on) /\ (Lets(e)' <=> Entitled(e)')
    <3>1. ~Repair(e)
      BY <1>2, <1>6, <2>6, RepairStays
    <3>2. (rt.tag <=> inb.on) /\ Lets(e)
      BY <1>2, <1>3, <2>4, <2>5, <3>1, Soon DEF StepOf, InStepSoon
    <3> QED BY <1>2, <1>4, <2>2, <2>3, <3>2 DEF Lets, Entitled
  <2> QED BY <1>2, <2>1, <2>6, AfterSave
<1> QED BY <1>5, <1>6

LEMMA InbTxKeepsStep ==
    ASSUME TypeOK, TypeOK', Shapes, NEW t \in Threads, NEW ok \in BOOLEAN, NEW e \in Emails, e \notin astray',
           StepOf(e), InbTx(t, ok)
    PROVE  StepOf(e)'
<1> DEFINE page == th[t].inb
<1>1. th \in [Threads -> Locals] /\ rt \in Runtimes /\ page \in Inbounds
  BY DEF TypeOK, Locals, Runtimes
<1>2. /\ UNCHANGED <<row, inb, job, need>> /\ lock' = t
      /\ th[t].op = "inb" /\ th[t].pc = "tx" /\ ~th[t].ask
      /\ \A u \in Threads \ {t} : th'[u] = th[u]
      /\ th'[t].op = "inb" /\ th'[t].pc = "commit" /\ th'[t].inb = page /\ (th'[t].ask <=> page.on /\ ~ok)
  BY <1>1 DEF InbTx, At, Shapes, Shape, Locals, Inbounds
<1>3. ok \/ page.on
  BY DEF InbTx
<1>4. rt'.up = rt.up
  BY <1>1 DEF InbTx, Runtimes
<1>5. Repair(e) => Repair(e)'
  BY <1>2, <1>4, RepairStays
<1>6. RowsKnown(e)'
  BY <1>2, <1>5, RowsStayKnown DEF StepOf
<1>7. ASSUME ~Repair(e)' PROVE (rt'.tag <=> OnSoon') /\ (Lets(e)' <=> Owed(t, e)')
  <2>1. ok
    BY <1>2, <1>3, <1>7 DEF Repair
  <2>2. rt'.tag = page.on /\ rt'.users = IF page.on THEN Listed(page.list) ELSE {}
    BY <1>1, <2>1 DEF InbTx, Runtimes
  <2>3. OnSoon' <=> page.on
    BY <1>2, SoonAfter
  <2>4. Lets(e)' <=> page.on /\ page.list[e] > 0
    BY <2>2 DEF Lets, Listed
  <2>5. Owed(t, e)' <=> page.on /\ page.list[e] > 0
    BY <1>2 DEF Owed
  <2> QED BY <2>2, <2>3, <2>4, <2>5
<1>8. Called(t, e)'
  BY <1>2 DEF Called
<1>9. InStepSoon(e)'
  BY <1>7, <1>8 DEF InStepSoon
<1> QED BY <1>6, <1>9 DEF StepOf

LEMMA InbCommitKeepsStep ==
    ASSUME TypeOK, TypeOK', Shapes, NEW t \in Threads, NEW e \in Emails, e \notin astray', StepOf(e), InbCommit(t)
    PROVE  StepOf(e)'
<1> DEFINE page == th[t].inb
<1>1. th \in [Threads -> Locals] /\ page \in Inbounds /\ inb \in Inbounds /\ page.list \in [Emails -> Nat]
  BY DEF TypeOK, Locals, Inbounds
<1>2. /\ UNCHANGED <<rt, job>> /\ th[t].op = "inb" /\ th[t].pc = "commit" /\ Save(t, page.list)
      /\ th'[t] = Idle /\ \A u \in Threads \ {t} : th'[u] = th[u]
      /\ need' = (need \/ th[t].ask) /\ lock' = Free
      /\ row'[e] = IF e \in Gone(t) THEN NoRow ELSE IF e \in New(t) THEN NewRow(e) ELSE row[e]
      /\ e \notin Clash(t) /\ ~(e \in Listed(page.list) /\ Here(e) /\ ~row[e].on)
  BY <1>1 DEF InbCommit, At, Return, Release
<1>3. lock = t
  BY <1>2 DEF TypeOK
<1>4. inb'.on = page.on /\ inb'.list = page.list
  BY <1>1, <1>2 DEF Save, Inbounds
<1>5. \A u \in Threads \ {t} : th[u] = Idle \/ th[u].e # e
  BY <1>2, NoRival
<1>6. page.list[e] > 0 => (Here(e)' => row'[e].on)
  <2>1. CASE e \in New(t)
    BY <1>2, <2>1 DEF New, Gone, NewRow, Listed
  <2>2. CASE e \notin New(t)
    BY <1>2, <2>2 DEF Gone, Listed, Here
  <2> QED BY <2>1, <2>2
<1>7. \A u \in Threads \ {t} : ~Called(u, e)
  BY <1>3, <1>5, IdleIsLocal DEF Called, TypeOK
<1>8. Called(t, e) /\ (Owed(t, e) <=> page.on /\ page.list[e] > 0)
  BY <1>2 DEF Called, Owed
<1>9. ASSUME ~Repair(e)' PROVE (rt'.tag <=> inb'.on) /\ (Lets(e)' <=> Entitled(e)')
  <2>1. ~Repair(e)
    BY <1>2, <1>9, RepairStays
  <2>2. (rt.tag <=> page.on) /\ (Lets(e) <=> page.on /\ page.list[e] > 0)
    BY <1>2, <1>3, <1>7, <1>8, <2>1, Soon DEF StepOf, InStepSoon
  <2> QED BY <1>2, <1>4, <1>6, <2>2 DEF Lets, Entitled
<1> QED BY <1>2, <1>5, <1>9, AfterSave

(* Xray, the restart, the job and the statements of their own. *)
LEMMA RestartPutsInStep ==
    ASSUME TypeOK, TypeOK', Shapes, NEW e \in Emails, e \notin astray', RestartXray
    PROVE  StepOf(e)'
<1>1. /\ lock = Free /\ UNCHANGED <<lock, job, th>> /\ row'[e].id = row[e].id
      /\ inb'.list = inb.list /\ (inb'.on <=> inb.on /\ ~InbRunsOut)
      /\ row'[e].on <=> row[e].on /\ ~Over(e)
  BY RestartDoes
<1>2. e \notin HalfDone
  <2>1. CASE StartAfresh
    <3>1. HalfDone \subseteq Emails
      BY DEF HalfDone, TypeOK, Locals
    <3> QED BY <2>1, <3>1 DEF StartAfresh
  <2> QED BY <2>1 DEF RestartXray, SkipRestart
<1>3. (rt'.tag <=> inb'.on) /\ (Lets(e)' <=> Entitled(e)')
  <2>1. CASE StartAfresh
    <3>1. ~InbRunsOut /\ ~(Entitled(e) /\ Over(e))
      BY <2>1 DEF StartAfresh
    <3>2. Entitled(e)' <=> Entitled(e)
      BY <1>1, <3>1 DEF Entitled, Over, Here
    <3>3. rt' = [up |-> TRUE, tag |-> inb.on, users |-> {y \in Emails : Entitled(y)}]
      BY <2>1 DEF StartAfresh
    <3> QED BY <1>1, <3>1, <3>2, <3>3 DEF Lets, Entitled
  <2>2. ASSUME NEW ok \in BOOLEAN, SkipRestart(ok)
        PROVE  (rt'.tag <=> inb'.on) /\ (Lets(e)' <=> Entitled(e)')
    BY <2>2 DEF SkipRestart, OutOfStep, Lets
  <2> QED BY <2>1, <2>2 DEF RestartXray
<1>4. \A t \in Threads : th[t].e = e => th[t].pc \notin {"call", "save"}
  BY <1>2 DEF HalfDone
<1>5. \A t \in Threads : ~Called(t, e)'
  BY <1>1, <1>4, OwnersDiffer DEF Called, TypeOK
<1>6. RowsKnown(e)'
  BY <1>1, <1>4 DEF RowsKnown, Shapes, Shape
<1>7. InStepSoon(e)'
  BY <1>1, <1>3, <1>5, SoonAfter DEF InStepSoon
<1> QED BY <1>6, <1>7 DEF StepOf

(* A step that leaves rows, inbound, lock and the handlers alone.             *)
LEMMA QuietKeepsStep ==
    ASSUME TypeOK, TypeOK', Shapes, NEW e \in Emails, StepOf(e),
           UNCHANGED <<inb, lock, th>>, row'[e].id = row[e].id, row'[e].on = row[e].on,
           lock # TheJob \/ UNCHANGED <<job, row>>,
           job.ask => job'.ask \/ need', need => need',
           need' \/ ~rt'.up \/ rt' = rt
    PROVE  StepOf(e)'
<1>1. Repair(e) => Repair(e)'
  BY DEF Repair
<1>2. Here(e)' <=> Here(e)
  BY DEF Here
<1>3. RowsKnown(e)'
  BY <1>1, <1>2 DEF StepOf, RowsKnown
<1>4. CASE need' \/ ~rt'.up
  BY <1>3, <1>4 DEF StepOf, InStepSoon, Repair
<1>5. CASE rt' = rt
  <2>1. lock = TheJob => UNCHANGED <<CutInbound, CutOff>>
    BY DEF CutInbound, CutOff, NewUsed, Here
  <2>2. (OnSoon' <=> OnSoon) /\ (EntitledSoon(e)' <=> EntitledSoon(e))
    BY <1>2, <2>1 DEF OnSoon, EntitledSoon
  <2>3. InStepSoon(e)'
    BY <1>1, <1>5, <2>2, AllKeepStep DEF StepOf, Lets
  <2> QED BY <1>3, <2>3 DEF StepOf
<1> QED BY <1>4, <1>5

LEMMA AloneKeepsStep ==
    ASSUME TypeOK, TypeOK', Shapes, NEW e \in Emails, e \notin astray', StepOf(e),
           \/ \E x \in Emails : Carry(x) \/ BotReset(x)
           \/ XrayDies \/ ResetAll \/ JobRead \/ JobReadLost
    PROVE  StepOf(e)'
<1>1. row \in [Emails -> Rows]
  BY DEF TypeOK
<1>2. lock = Free => lock # TheJob
  BY OwnersDiffer
<1>3. CASE (\E x \in Emails : Carry(x)) \/ XrayDies \/ JobReadLost
  <2>1. UNCHANGED <<row, inb, lock, job, th, need>> /\ (~rt'.up \/ rt' = rt)
    BY <1>3 DEF Carry, XrayDies, JobReadLost, Down
  <2> QED BY <2>1, QuietKeepsStep
<1>4. CASE JobRead
  <2>1. UNCHANGED <<rt, row, inb, lock, th, need>> /\ lock # TheJob /\ ~job.ask
    BY <1>4 DEF JobRead, TypeOK, NoJob
  <2> QED BY <2>1, QuietKeepsStep
<1>5. ASSUME NEW x \in Emails, BotReset(x) PROVE StepOf(e)'
  <2>1. /\ UNCHANGED <<rt, inb, lock, job, th, need>> /\ lock = Free /\ Reset({x})
        /\ e = x => row[e].on
    BY <1>5 DEF BotReset
  <2>2. row'[e].id = row[e].id /\ row'[e].on = row[e].on
    <3>1. CASE e = x
      BY <1>1, <2>1, <3>1 DEF Rows, Reset
    <3>2. CASE e # x
      BY <1>1, <2>1, <3>2 DEF Reset
    <3> QED BY <3>1, <3>2
  <2> QED BY <1>2, <2>1, <2>2, QuietKeepsStep
<1>6. CASE ResetAll
  <2>1. UNCHANGED <<th>> /\ need' /\ row'[e].id = row[e].id
    BY <1>1, <1>6 DEF ResetAll, Reset, Rows
  <2> QED BY <2>1 DEF StepOf, RowsKnown, InStepSoon, Repair, Here
<1> QED BY <1>3, <1>4, <1>5, <1>6

LEMMA JobCallsKeepsStep ==
    ASSUME TypeOK, TypeOK', Shapes, NEW ok \in BOOLEAN, NEW e \in Emails, StepOf(e), JobCalls(ok)
    PROVE  StepOf(e)'
<1>1. rt \in Runtimes /\ job \in [pc : {"idle", "got", "tx"}, got : [Emails -> Nat], igot : Nat, ask : BOOLEAN]
  BY DEF TypeOK, Runtimes
<1>2. /\ lock = Free /\ lock' = TheJob /\ UNCHANGED <<row, inb, th, need>> /\ job.pc = "got"
      /\ job'.got = job.got /\ job'.igot = job.igot /\ (job'.ask <=> Cuts /\ (~ok \/ ~rt.tag))
  BY <1>1 DEF JobCalls
<1>3. UNCHANGED <<CutInbound, CutOff>>
  BY <1>2 DEF CutInbound, CutOff, NewUsed, Here
<1>4. /\ rt' \in Runtimes /\ rt'.up = rt.up
      /\ CutInbound /\ ok => ~rt'.tag /\ rt'.users = {}
      /\ ~(CutInbound /\ ok) => /\ rt'.tag = rt.tag
                                /\ \A z \in Emails : z \in rt'.users <=> z \in rt.users /\ ~(ok /\ z \in CutOff)
  <2>1. CASE CutInbound /\ ok
    BY <1>1, <2>1 DEF JobCalls, Runtimes
  <2>2. CASE ~(CutInbound /\ ok)
    BY <1>1, <2>2 DEF JobCalls, Runtimes, DropUsers
  <2> QED BY <2>1, <2>2
<1>5. ~job.ask
  BY <1>2 DEF Shapes
<1>6. Repair(e) => Repair(e)'
  BY <1>2, <1>4, <1>5 DEF Repair
<1>7. RowsKnown(e)'
  BY <1>2, <1>6 DEF StepOf, RowsKnown, Here
<1>8. InStepSoon(e)'
  <2> SUFFICES ASSUME ~Repair(e)' PROVE InStepSoon(e)'
    BY DEF InStepSoon
  <2>1. Cuts => ok /\ rt.tag
    BY <1>2 DEF Repair
  <2>2. OnSoon' <=> inb.on /\ ~CutInbound
    BY <1>2, <1>3, SoonAfter
  <2>3. EntitledSoon(e)' <=> OnSoon' /\ inb.list[e] > 0 /\ (Here(e) => row[e].on /\ e \notin CutOff)
    BY <1>2, <1>3 DEF EntitledSoon, Here
  <2>4. rt.tag <=> inb.on
    BY <1>2, <1>6, Soon DEF StepOf, InStepSoon
  <2>5. rt'.tag <=> OnSoon'
    BY <1>4, <2>1, <2>2, <2>4 DEF Cuts
  <2>6. Lets(e)' <=> Lets(e) /\ ~CutInbound /\ e \notin CutOff
    BY <1>4, <2>1 DEF Lets, Cuts
  <2>7. \A t \in Threads : Called(t, e)' <=> Called(t, e)
    BY <1>2 DEF Called
  <2>8. (\A t \in Threads : ~Called(t, e)) => (Lets(e)' <=> EntitledSoon(e)')
    BY <1>2, <1>6, <2>2, <2>3, <2>6, Soon DEF StepOf, InStepSoon, Entitled, CutOff
  <2>9. ASSUME NEW t \in Threads, Called(t, e), \A u \in Threads \ {t} : ~Called(u, e)
        PROVE  Lets(e)' <=> Owed(t, e)'
    <3>1. th[t].pc = "save" /\ th[t].e = e /\ (th[t].op = "del" \/ (th[t].op = "reset" /\ ~th[t].row.on))
      BY <1>2, <2>9, CalledOutside, OwnersDiffer
    <3>2. e \notin CutOff
      BY <1>6, <3>1 DEF StepOf, RowsKnown, CutOff
    <3>3. Lets(e) <=> Owed(t, e)
      BY <1>6, <2>9 DEF StepOf, InStepSoon
    <3>4. Owed(t, e) <=> th[t].op = "reset" /\ inb.on /\ inb.list[e] > 0
      BY <1>2, <3>1, Soon DEF Owed
    <3>5. Owed(t, e)' <=> th[t].op = "reset" /\ OnSoon' /\ inb.list[e] > 0
      BY <1>2, <3>1 DEF Owed
    <3> QED BY <2>2, <2>6, <3>2, <3>3, <3>4, <3>5
  <2> QED BY <2>5, <2>7, <2>8, <2>9 DEF InStepSoon
<1> QED BY <1>7, <1>8 DEF StepOf

LEMMA JobCommitKeepsStep ==
    ASSUME TypeOK, TypeOK', NEW e \in Emails, StepOf(e), JobCommit
    PROVE  StepOf(e)'
<1>1. row \in [Emails -> Rows] /\ inb \in Inbounds
  BY DEF TypeOK
<1>2. /\ lock = TheJob /\ lock' = Free /\ UNCHANGED <<rt, th>> /\ need' = (need \/ job.ask)
      /\ row' = [y \in Emails |-> IF Here(y) THEN [row[y] EXCEPT !.used = NewUsed(y), !.on = @ /\ y \notin CutOff]
                                             ELSE row[y]]
      /\ inb' = [inb EXCEPT !.used = @ + job.igot, !.on = @ /\ ~CutInbound]
  BY DEF JobCommit, Release, TypeOK
<1>3. Repair(e) => Repair(e)'
  BY <1>2 DEF Repair
<1>4. row'[e].id = row[e].id /\ (Here(e) => (row'[e].on <=> row[e].on /\ e \notin CutOff))
  <2>1. CASE Here(e)
    BY <1>1, <1>2, <2>1 DEF Rows
  <2>2. CASE ~Here(e)
    BY <1>1, <1>2, <2>2
  <2> QED BY <2>1, <2>2
<1>5. Here(e)' <=> Here(e)
  BY <1>4 DEF Here
<1>6. inb'.list = inb.list /\ (inb'.on <=> inb.on /\ ~CutInbound)
  BY <1>1, <1>2 DEF Inbounds
<1>7. OnSoon' <=> OnSoon
  BY <1>2, <1>6, Soon, SoonAfter
<1>8. EntitledSoon(e)' <=> EntitledSoon(e)
  BY <1>2, <1>4, <1>5, <1>6, <1>7, SoonAfter, OwnersDiffer DEF EntitledSoon
<1>9. RowsKnown(e)'
  BY <1>2, <1>3, <1>4, <1>5 DEF StepOf, RowsKnown
<1>10. InStepSoon(e)'
  BY <1>2, <1>3, <1>6, <1>7, <1>8, AllKeepStep DEF StepOf, Lets
<1> QED BY <1>9, <1>10 DEF StepOf

LEMMA JobFailsKeepsStep ==
    ASSUME TypeOK, TypeOK', Shapes, NEW e \in Emails, e \notin astray', StepOf(e), JobFails
    PROVE  StepOf(e)'
<1>1. UNCHANGED <<rt, row, inb, th>> /\ need' = (need \/ job.ask)
  BY DEF JobFails
<1>2. CASE job.pc = "got"
  <2>1. lock' = lock /\ lock # TheJob
    BY <1>2 DEF JobFails, TypeOK
  <2> QED BY <1>1, <2>1, QuietKeepsStep
<1>3. CASE job.pc = "tx"
  <2>1. lock = TheJob /\ lock' = Free /\ ~CutInbound /\ e \notin CutOff
    BY <1>3 DEF JobFails, TypeOK
  <2>2. Repair(e) => Repair(e)'
    BY <1>1 DEF Repair
  <2>3. OnSoon' <=> OnSoon
    BY <1>1, <2>1, Soon, SoonAfter
  <2>4. EntitledSoon(e)' <=> EntitledSoon(e)
    BY <1>1, <2>1, <2>3, SoonAfter, OwnersDiffer DEF EntitledSoon, Here
  <2>5. RowsKnown(e)'
    BY <1>1, <2>2 DEF StepOf, RowsKnown, Here
  <2>6. InStepSoon(e)'
    BY <1>1, <2>2, <2>3, <2>4, AllKeepStep DEF StepOf, Lets
  <2> QED BY <2>5, <2>6 DEF StepOf
<1> QED BY <1>2, <1>3 DEF JobFails

(* Nobody who is astray is put right but by a restart.                        *)
LEMMA AstrayStays ==
    ASSUME TypeOK, [Next]_vars
    PROVE  RestartXray \/ astray \subseteq astray'
<1>1. CASE UNCHANGED vars
  BY <1>1 DEF vars
<1>2. ASSUME NEW t \in Threads, Requests(t) PROVE astray' = astray
  BY <1>2 DEF Requests, ResetRead, AddCheck, DelRead, UpdRead, InbOpen, Begin
<1>3. ASSUME NEW t \in Threads, HandlerStep(t) PROVE astray \subseteq astray'
  <2>1. ASSUME NEW ok \in BOOLEAN, ResetCall(t, ok) \/ AddTx(t, ok) \/ DelCall(t, ok) \/ UpdTx(t, ok)
        PROVE  astray' = astray
    BY <2>1 DEF ResetCall, AddTx, DelCall, UpdTx
  <2>2. ASSUME NEW ok \in BOOLEAN, InbTx(t, ok), NEW e \in astray, astray \subseteq Emails PROVE e \in astray'
    BY <2>2 DEF InbTx
  <2>3. CASE AddRead(t) \/ DelRow(t) \/ InbFails(t)
    BY <2>3 DEF AddRead, DelRow, InbFails
  <2>4. CASE ResetSave(t) \/ AddCommit(t) \/ DelSave(t) \/ UpdCommit(t) \/ InbCommit(t)
    BY <2>4 DEF ResetSave, AddCommit, DelSave, UpdCommit, InbCommit
  <2> QED BY <1>3, <2>1, <2>2, <2>3, <2>4 DEF HandlerStep, TypeOK
<1>4. ASSUME NEW e \in Emails, Carry(e) \/ BotReset(e) PROVE astray \subseteq astray'
  BY <1>4 DEF Carry, BotReset
<1>5. CASE XrayDies \/ ResetAll \/ JobRead \/ JobReadLost \/ JobCommit
  BY <1>5 DEF XrayDies, ResetAll, JobRead, JobReadLost, JobCommit
<1>6. ASSUME NEW ok \in BOOLEAN, JobCalls(ok) PROVE astray' = astray
  BY <1>6 DEF JobCalls
<1>7. CASE JobFails
  BY <1>7 DEF JobFails, TypeOK
<1> QED BY <1>1, <1>2, <1>3, <1>4, <1>5, <1>6, <1>7 DEF Next, JobStep

LEMMA StepsKept ==
    ASSUME TypeOK, TypeOK', Shapes, Steps, [Next]_vars
    PROVE  Steps'
<1> SUFFICES ASSUME NEW e \in Emails, e \notin astray' PROVE StepOf(e)'
  BY DEF Steps
<1>1. CASE RestartXray
  BY <1>1, RestartPutsInStep
<1>2. CASE ~RestartXray
  <2>1. StepOf(e)
    BY <1>2, AstrayStays DEF Steps
  <2>2. ASSUME NEW t \in Threads, Requests(t) \/ HandlerStep(t) PROVE StepOf(e)'
    <3>1. CASE Requests(t) \/ AddRead(t) \/ InbFails(t)
      BY <2>1, <3>1, ReadingKeepsStep
    <3>2. ASSUME NEW ok \in BOOLEAN, ResetCall(t, ok) \/ AddTx(t, ok) \/ DelCall(t, ok) \/ UpdTx(t, ok)
          PROVE  StepOf(e)'
      BY <2>1, <3>2, CallKeepsStep
    <3>3. ASSUME NEW ok \in BOOLEAN, InbTx(t, ok) PROVE StepOf(e)'
      BY <2>1, <3>3, InbTxKeepsStep
    <3>4. CASE ResetSave(t) \/ AddCommit(t) \/ DelRow(t) \/ DelSave(t) \/ UpdCommit(t) \/ InbCommit(t)
      BY <2>1, <3>4, ResetSaveKeepsStep, AddCommitKeepsStep, DelRowKeepsStep, DelSaveKeepsStep,
         UpdCommitKeepsStep, InbCommitKeepsStep
    <3> QED BY <2>2, <3>1, <3>2, <3>3, <3>4 DEF HandlerStep
  <2>3. ASSUME NEW ok \in BOOLEAN, JobCalls(ok) PROVE StepOf(e)'
    BY <2>1, <2>3, JobCallsKeepsStep
  <2>4. CASE JobCommit \/ JobFails
    BY <2>1, <2>4, JobCommitKeepsStep, JobFailsKeepsStep
  <2>5. CASE \/ \E x \in Emails : Carry(x) \/ BotReset(x)
             \/ XrayDies \/ ResetAll \/ JobRead \/ JobReadLost
    BY <2>1, <2>5, AloneKeepsStep
  <2>6. CASE UNCHANGED vars
    <3>1. UNCHANGED <<rt, row, inb, lock, job, th, need>>
      BY <2>6 DEF vars
    <3> QED BY <2>1, <3>1, QuietKeepsStep
  <2> QED BY <1>2, <2>2, <2>3, <2>4, <2>5, <2>6 DEF Next, JobStep
<1> QED BY <1>1, <1>2

LEMMA StartsInStep ==
    ASSUME Init, TypeOK
    PROVE  Shapes /\ Steps
<1>1. \A t \in Threads : ~th[t].ask /\ th[t].op \in {"none", "inb"} /\ th[t].pc \in {"idle", "tx"}
  BY IdleIsLocal, IdleIsShaped DEF Init, Page, Locals
<1>2. lock = Free /\ job = NoJob /\ need = FALSE /\ rt.up /\ rt.tag
  BY DEF Init
<1>3. Shapes
  BY <1>1, <1>2 DEF Shapes, Shape, NoJob
<1>4. inb.on /\ \A e \in Emails : Lets(e) <=> Entitled(e)
  <2>1. PICK S \in SUBSET Emails, D \in SUBSET Emails :
          /\ inb \in [list : {ListOf(S)}, used : {0, InbTotal - 1}, on : {TRUE}]
          /\ row = [e \in Emails |-> IF e \in S \cup D THEN [id |-> 1, used |-> 0, on |-> TRUE] ELSE NoRow]
          /\ rt = [up |-> TRUE, tag |-> TRUE, users |-> S]
    BY DEF Init
  <2>2. inb.on /\ inb.list = ListOf(S)
    BY <2>1
  <2>3. \A e \in Emails : (inb.list[e] > 0 <=> e \in S) /\ (Here(e) => row[e].on)
    BY <2>1, <2>2 DEF ListOf, Here, NoRow
  <2> QED BY <2>1, <2>2, <2>3 DEF Lets, Entitled
<1>5. ASSUME NEW e \in Emails PROVE StepOf(e)
  <2>1. \A t \in Threads : ~Called(t, e)
    BY <1>1 DEF Called
  <2>2. RowsKnown(e)
    BY <1>1 DEF RowsKnown
  <2>3. InStepSoon(e)
    BY <1>2, <1>4, <2>1, Soon DEF InStepSoon
  <2> QED BY <2>2, <2>3 DEF StepOf
<1> QED BY <1>3, <1>5 DEF Steps

(* At rest, what lies ahead is what is.                                       *)
LEMMA StepAtRest ==
    ASSUME TypeOK, Steps
    PROVE  InStep
<1> SUFFICES ASSUME Quiet, NEW e \in Emails \ astray PROVE Lets(e) <=> Entitled(e)
  BY DEF InStep, Lets
<1>1. /\ lock = Free /\ ~need /\ rt.up /\ ~job.ask
      /\ \A t \in Threads : ~th[t].ask /\ ~Called(t, e)
  BY IdleIsLocal, IdleIsShaped, OwnersDiffer DEF Quiet, TypeOK, NoJob, Called
<1>2. ~Repair(e)
  BY <1>1 DEF Repair
<1> QED BY <1>1, <1>2, Soon DEF Steps, StepOf, InStepSoon

(* Whatever is interleaved, lost or restarted: with everybody at rest and no  *)
(* restart asked for, Xray lets in exactly the clients the database entitles, *)
(* apart from those an overlap of the listed kinds has put out of step        *)
(* (inbound.go:553-648, 655-812, 939-1064, 1767-1845; xray.go:295-346).       *)
THEOREM StaysInStepWithXray == Spec => []InStep
<1>1. Init /\ TypeOK => Shapes /\ Steps
  BY StartsInStep
<1>2. TypeOK /\ TypeOK' /\ Shapes /\ Steps /\ [Next]_vars => Shapes' /\ Steps'
  BY ShapesKept, StepsKept
<1>3. TypeOK /\ Steps => InStep
  BY StepAtRest
<1> QED BY <1>1, <1>2, <1>3, TypeCorrect, PTL DEF Spec
===============================================================================
