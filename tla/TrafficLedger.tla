----------------------------- MODULE TrafficLedger -----------------------------
(***************************************************************************)
(* The traffic of the clients of one inbound on its way from Xray's        *)
(* counters into the database, and the handlers that write the same rows.  *)
(*                                                                         *)
(* ClientAccess takes a handler as one step.  Here it is cut at every      *)
(* statement others can come between: a handler reads a row, calls Xray    *)
(* and saves the whole row later, and XrayTrafficJob reads (and resets)    *)
(* Xray's counters before it begins its transaction.  A write transaction  *)
(* excludes other writes (lock), not reads and not calls of Xray.          *)
(*                                                                         *)
(* Every client is enabled in the settings and has the same quota; terms   *)
(* and renewal are in ClientAccess, RestartXray's steps there and in       *)
(* XraySupervisor: a call of it is one step here.                          *)
(***************************************************************************)
EXTENDS Naturals, FiniteSets

CONSTANTS
    Emails,
    Threads,       \* goroutines that serve the administrators' requests
    Free, TheJob,  \* nobody, and the traffic job, as owners of the lock
    Total,         \* quota of a client
    InbTotal,      \* quota of the inbound
    MaxBytes,      \* bound: traffic carried
    MaxOps,        \* bound: requests
    MaxFails       \* bound: failures of Xray, its API and the database

ASSUME OwnersDiffer == Free # TheJob /\ {Free, TheJob} \cap Threads = {}
ASSUME QuotasNat == Total \in Nat \ {0} /\ InbTotal \in Nat \ {0}
ASSUME EmailsFinite == IsFiniteSet(Emails) /\ Emails # {}

VARIABLES
    cnt,    \* Xray: traffic per user since it was last asked
    icnt,   \* the same of the whole inbound
    rt,     \* Xray: up, the inbound's handler and its users
    base,   \* the configuration Xray was started with
    row,    \* client_traffics: id (0: no row), used (up + down), on (enable)
    inb,    \* the inbound's row: list (clients per email), used, on
    lock,   \* who holds SQLite's write lock
    job,    \* XrayTrafficJob: pc, the counters it has read, the restart it asks for
    th,     \* the handlers and their locals
    need,   \* isNeedXrayRestart
    born,   \* rows created so far, per email
    adrift, \* history: clients whose list or row a stale save has overwritten
    astray, \* history: clients whom an overlap has put out of step with Xray
    caused, \* history: traffic each client has caused
    bytes, ops, fails  \* counters for the bounds

counters == <<caused, bytes, ops, fails>>
vars == <<cnt, icnt, rt, base, row, inb, lock, job, th, need, born, adrift,
          astray, caused, bytes, ops, fails>>

NoRow == [id |-> 0, used |-> 0, on |-> FALSE]
Here(e) == row[e].id > 0
Listed(list) == {e \in Emails : list[e] > 0}
Down == [up |-> FALSE, tag |-> FALSE, users |-> {}]
NoInb == [list |-> [e \in Emails |-> 0], used |-> 0, on |-> FALSE]
Idle == [pc |-> "idle", op |-> "none", e |-> CHOOSE e \in Emails : TRUE,
         row |-> NoRow, inb |-> NoInb, ask |-> FALSE]
\* UpdateInbound with what the browser has loaded.
Page(i) == [Idle EXCEPT !.op = "inb", !.pc = "tx", !.inb = i]
NoCount == [e \in Emails |-> 0]
NoJob == [pc |-> "idle", got |-> NoCount, igot |-> 0, ask |-> FALSE]

\* What GetXrayConfig lets in: a client without a row passes.
Entitled(e) == inb.on /\ inb.list[e] > 0 /\ (Here(e) => row[e].on)
Built == [tag |-> inb.on, list |-> [e \in Emails |-> IF Entitled(e) THEN inb.list[e] ELSE 0]]

\* Mutant of Release: a way out on which the transaction is left open.
MutantRelease == UNCHANGED lock

\* The deferred Commit.
Release == lock' = Free

Fail == fails < MaxFails /\ fails' = fails + 1

(* A call of Xray's API takes effect or fails. *)
Reach(ok) ==
    /\ ok => rt.up
    /\ IF rt.up /\ ~ok THEN Fail ELSE UNCHANGED fails
AddUser(ok, r, e) == IF ok /\ r.tag THEN [r EXCEPT !.users = @ \cup {e}] ELSE r
\* Mutant of AddErr: an error of AddUser is logged and forgotten.
MutantAddErr(ok, r, e) == FALSE
AddErr(ok, r, e) == ~ok \/ ~r.tag \/ e \in r.users
DropUsers(ok, r, S) == IF ok THEN [r EXCEPT !.users = @ \ S] ELSE r

ListOf(S) == [e \in Emails |-> IF e \in S THEN 1 ELSE 0]

(* D: clients whom an old stale save has dropped from the list and not from   *)
(* the rows, while a page that still lists them is open in a browser.         *)
Init ==
    /\ \E S \in (SUBSET Emails) \ {{}} : \E D \in SUBSET (Emails \ S) :
         /\ inb \in [list : {ListOf(S)}, used : {0, InbTotal - 1}, on : {TRUE}]
         /\ row = [e \in Emails |-> IF e \in S \cup D THEN [id |-> 1, used |-> 0, on |-> TRUE] ELSE NoRow]
         /\ born = ListOf(S \cup D)
         /\ rt = [up |-> TRUE, tag |-> TRUE, users |-> S]
         /\ base = [tag |-> TRUE, list |-> ListOf(S)]
         /\ th = [t \in Threads |-> IF D # {} /\ t = CHOOSE u \in Threads : TRUE
                                    THEN Page([inb EXCEPT !.list = ListOf(S \cup D)]) ELSE Idle]
         /\ adrift = D
    /\ cnt = NoCount /\ icnt = 0
    /\ lock = Free
    /\ job = NoJob
    /\ need = FALSE
    /\ astray = {}
    /\ caused = NoCount /\ bytes = 0 /\ ops = 0 /\ fails = 0

-------------------------------------------------------------------------------
(* Xray. *)

Carry(e) ==
    /\ rt.up /\ rt.tag /\ e \in rt.users
    /\ bytes < MaxBytes /\ bytes' = bytes + 1
    /\ caused' = [caused EXCEPT ![e] = @ + 1]
    /\ cnt' = [cnt EXCEPT ![e] = @ + 1]
    /\ icnt' = icnt + 1
    /\ UNCHANGED <<rt, row, inb, lock, job, th, need, base, born, adrift, astray, ops, fails>>

\* Xray ends; what it had counted since it was last asked is gone.
XrayDies ==
    /\ rt.up /\ Fail
    /\ rt' = Down /\ cnt' = NoCount /\ icnt' = 0
    /\ UNCHANGED <<row, inb, lock, job, th, need, base, born, adrift, astray, caused, bytes, ops>>

Over(e) == Here(e) /\ row[e].used >= Total

\* Whose handler has called Xray, or is about to, but has not saved.
HalfDone == {th[t].e : t \in {u \in Threads : th[u].pc \in {"call", "save"}}}

(* GetXrayConfig makes the configuration of the rows as they are before       *)
(* AddTraffic(nil, nil) cuts off who has run out.                             *)
RunOut == {e \in Emails : Over(e) /\ row[e].on}
InbRunsOut == inb.on /\ inb.used >= InbTotal
Housekeep ==
    /\ row' = [e \in Emails |-> IF Over(e) THEN [row[e] EXCEPT !.on = FALSE] ELSE row[e]]
    /\ inb' = [inb EXCEPT !.on = @ /\ inb.used < InbTotal]

(* RestartXray starts Xray afresh when it is down or the configuration is not *)
(* the one it was started with: this inbound's, or a part not modelled here.  *)
StartAfresh ==
    /\ need \/ ~rt.up
    /\ lock = Free
    /\ rt' = [up |-> TRUE, tag |-> inb.on, users |-> {e \in Emails : Entitled(e)}]
    /\ base' = Built
    /\ cnt' = NoCount /\ icnt' = 0
    /\ need' = FALSE
    /\ Housekeep
    /\ astray' = IF InbRunsOut THEN Emails ELSE {e \in Emails : Entitled(e) /\ Over(e)} \cup HalfDone
    /\ UNCHANGED <<lock, job, th, born, adrift, counters>>

\* Whom Xray, left as r, treats otherwise than the database will.
OutOfStep(r) == IF r.tag <=> inb'.on
                THEN {e \in Emails : ~(r.tag /\ e \in r.users <=> Entitled(e)')} ELSE Emails

(* "It does not need to restart Xray": the configuration is the one Xray was  *)
(* started with, whatever API calls have made of Xray since.  The             *)
(* housekeeping has called the API too; what failed of that is ignored.       *)
SkipRestart(ok) ==
    /\ need /\ rt.up /\ base = Built
    /\ lock = Free
    /\ IF RunOut # {} \/ InbRunsOut THEN Reach(ok) ELSE ok /\ UNCHANGED fails
    /\ rt' = IF InbRunsOut /\ ok THEN [rt EXCEPT !.tag = FALSE, !.users = {}]
             ELSE DropUsers(ok, rt, RunOut)
    /\ need' = FALSE
    /\ Housekeep
    /\ astray' = astray \cup OutOfStep(rt') \cup HalfDone
    /\ UNCHANGED <<cnt, icnt, base, lock, job, th, born, adrift, caused, bytes, ops>>

RestartXray == StartAfresh \/ \E ok \in BOOLEAN : SkipRestart(ok)

-------------------------------------------------------------------------------
(* XrayTrafficJob. *)

\* Mutant of LeftAfterRead: the counters are read without the reset.
MutantLeftAfterRead == cnt

\* GetTraffic(true) reads the counters and resets them.
LeftAfterRead == NoCount

JobRead ==
    /\ job.pc = "idle" /\ rt.up
    /\ cnt' = LeftAfterRead /\ icnt' = 0
    /\ job' = [NoJob EXCEPT !.pc = "got", !.got = cnt, !.igot = icnt]
    /\ UNCHANGED <<rt, row, inb, lock, th, need, base, born, adrift, astray, counters>>

\* The answer is lost after the reset.
JobReadLost ==
    /\ job.pc = "idle" /\ rt.up /\ Fail
    /\ cnt' = NoCount /\ icnt' = 0
    /\ UNCHANGED <<rt, row, inb, lock, job, th, need, base, born, adrift, astray, caused, bytes, ops>>

NewUsed(e) == IF Here(e) THEN row[e].used + job.got[e] ELSE 0
\* Mutant of CutOff: the quota may be reached, only not passed.
MutantCutOff == {e \in Emails : Here(e) /\ row[e].on /\ NewUsed(e) > Total}
CutOff == {e \in Emails : Here(e) /\ row[e].on /\ NewUsed(e) >= Total}
CutInbound == inb.on /\ inb.used + job.igot >= InbTotal
Cuts == CutOff # {} \/ CutInbound

(* The transaction begins with the additions, which take the lock; then Xray  *)
(* is told to drop whoever has run out, and the inbound if it has.            *)
JobCalls(ok) ==
    /\ job.pc = "got" /\ lock = Free
    /\ lock' = TheJob
    /\ job' = [job EXCEPT !.pc = "tx", !.ask = Cuts /\ (~ok \/ ~rt.tag)]
    /\ IF Cuts THEN Reach(ok) ELSE ok /\ UNCHANGED fails
    /\ rt' = IF CutInbound /\ ok THEN [rt EXCEPT !.tag = FALSE, !.users = {}]
             ELSE DropUsers(ok, rt, CutOff)
    /\ UNCHANGED <<cnt, icnt, row, inb, th, need, base, born, adrift, astray, caused, bytes, ops>>

JobCommit ==
    /\ job.pc = "tx"
    /\ row' = [e \in Emails |->
                 IF Here(e) THEN [row[e] EXCEPT !.used = NewUsed(e), !.on = @ /\ e \notin CutOff]
                            ELSE row[e]]
    /\ inb' = [inb EXCEPT !.used = @ + job.igot, !.on = @ /\ ~CutInbound]
    /\ need' = (need \/ job.ask)
    /\ job' = NoJob /\ Release
    /\ UNCHANGED <<cnt, icnt, rt, th, base, born, adrift, astray, counters>>

(* A statement fails before Xray is called, or one after (AddTraffic returns  *)
(* nil then and the deferred function rolls back): the traffic read is gone.  *)
JobFails ==
    /\ job.pc \in {"got", "tx"} /\ Fail
    /\ need' = (need \/ job.ask)
    /\ job' = NoJob
    /\ lock' = IF lock = TheJob THEN Free ELSE lock
    /\ astray' = IF job.pc = "got" THEN astray
                 ELSE IF CutInbound THEN Emails ELSE astray \cup CutOff
    /\ UNCHANGED <<cnt, icnt, rt, row, inb, th, base, born, adrift, caused, bytes, ops>>

-------------------------------------------------------------------------------
(* The administrators' requests; every one begins with a read. *)

Begin(t, local) ==
    /\ th[t] = Idle /\ ops < MaxOps /\ ops' = ops + 1
    /\ th' = [th EXCEPT ![t] = local]
    /\ UNCHANGED <<cnt, icnt, rt, row, inb, lock, job, need, base, born, adrift, astray, caused, bytes, fails>>

At(t, op, pc) == th[t].op = op /\ th[t].pc = pc
Go(t, pc) == th' = [th EXCEPT ![t].pc = pc]
\* The controller's SetToNeedRestart, once the handler has returned.
Return(t) == th' = [th EXCEPT ![t] = Idle] /\ need' = (need \/ th[t].ask)
Abort(t) == th' = [th EXCEPT ![t] = Idle] /\ UNCHANGED need

\* Clients on whom another handler is at work while this one ends.
Clash(t) ==
    LET whole(u) == th[u].op = "inb"
        rivals == {u \in Threads \ {t} : /\ th[u] # Idle
                                         /\ whole(u) \/ whole(t) \/ th[u].e = th[t].e}
    IN  {th[IF whole(t) THEN u ELSE t].e : u \in rivals}

(* ResetClientTraffic. *)
ResetRead(t, e) ==
    /\ Here(e)
    /\ Begin(t, [Idle EXCEPT !.op = "reset", !.e = e, !.row = row[e],
                             !.pc = IF row[e].on THEN "save" ELSE "call"])

\* Whose row was off is given back to Xray, if he is still in the settings.
ResetCall(t, ok) ==
    LET e == th[t].e
    IN  /\ At(t, "reset", "call")
        /\ IF inb.list[e] > 0
           THEN /\ Reach(ok)
                /\ rt' = AddUser(ok, rt, e)
                /\ th' = [th EXCEPT ![t].pc = "save", ![t].ask = AddErr(ok, rt, e)]
           ELSE ok /\ Go(t, "save") /\ UNCHANGED <<rt, fails>>
        /\ UNCHANGED <<cnt, icnt, row, inb, lock, job, need, base, born, adrift, astray, caused, bytes, ops>>

(* The whole row is saved as it was read, but for what the reset sets; a row  *)
(* that is gone is created again, one that has been replaced is an error.     *)
ResetSave(t) ==
    LET e == th[t].e
        old == th[t].row
    IN  /\ At(t, "reset", "save") /\ lock = Free
        /\ IF row[e].id \in {old.id, 0}
           THEN /\ row' = [row EXCEPT ![e] = [old EXCEPT !.used = 0, !.on = TRUE]]
                /\ Return(t)
                /\ astray' = astray \cup Clash(t)
                             \cup (IF Here(e) /\ old.on /\ ~row[e].on THEN {e} ELSE {})
                /\ adrift' = adrift \cup Clash(t) \cup (IF Here(e) THEN {} ELSE {e})
           ELSE Abort(t) /\ UNCHANGED <<row, adrift, astray>>
        /\ UNCHANGED <<cnt, icnt, rt, inb, lock, job, base, born, counters>>

(* One statement each: ResetClientTrafficByEmail, ResetAllClientTraffics. *)
Reset(S) == row' = [e \in Emails |-> IF e \in S /\ Here(e)
                                     THEN [row[e] EXCEPT !.used = 0, !.on = TRUE] ELSE row[e]]

BotReset(e) ==
    /\ Here(e) /\ lock = Free /\ ops < MaxOps /\ ops' = ops + 1
    /\ Reset({e})
    /\ astray' = IF row[e].on THEN astray ELSE astray \cup {e}
    /\ UNCHANGED <<cnt, icnt, rt, inb, lock, job, th, need, base, born, adrift, caused, bytes, fails>>

ResetAll ==
    /\ lock = Free /\ ops < MaxOps /\ ops' = ops + 1
    /\ Reset(Emails)
    /\ need' = TRUE
    /\ UNCHANGED <<cnt, icnt, rt, inb, lock, job, th, base, born, adrift, astray, caused, bytes, fails>>
(* A save of the inbound's whole row, as read earlier but for its own list. *)
Save(t, list) == inb' = [th[t].inb EXCEPT !.list = list]
\* Whom it overwrites.
Drifted(t) == {e \in Emails : th[t].inb.list[e] # inb.list[e]}
Unsteadied(t) == Drifted(t) \cup (IF th[t].inb.on # inb.on THEN Emails ELSE {})

\* Mutant of EmailIsNew: the new email is not looked up.
MutantEmailIsNew(e) == TRUE

\* checkEmailsExistForClients looks at the settings of all inbounds.
EmailIsNew(e) == inb.list[e] = 0

(* AddInboundClient: check, read, and then a transaction that inserts the     *)
(* client's row (an error is ignored), calls Xray and saves the inbound.      *)
AddCheck(t, e) ==
    /\ EmailIsNew(e)
    /\ Begin(t, [Idle EXCEPT !.op = "add", !.e = e, !.pc = "read"])

AddRead(t) ==
    /\ At(t, "add", "read")
    /\ th' = [th EXCEPT ![t].pc = "tx", ![t].inb = inb]
    /\ UNCHANGED <<cnt, icnt, rt, row, inb, lock, job, need, base, born, adrift, astray, counters>>

AddTx(t, ok) ==
    LET e == th[t].e
    IN  /\ At(t, "add", "tx") /\ lock = Free
        /\ lock' = t
        /\ Reach(ok)
        /\ rt' = AddUser(ok, rt, e)
        /\ th' = [th EXCEPT ![t].pc = "commit", ![t].ask = AddErr(ok, rt, e)]
        /\ UNCHANGED <<cnt, icnt, row, inb, job, need, base, born, adrift, astray, caused, bytes, ops>>

NewRow(e) == [id |-> born[e] + 1, used |-> 0, on |-> TRUE]

AddCommit(t) ==
    LET e == th[t].e
    IN  /\ At(t, "add", "commit")
        /\ Save(t, [th[t].inb.list EXCEPT ![e] = @ + 1])
        /\ row' = IF Here(e) THEN row ELSE [row EXCEPT ![e] = NewRow(e)]
        /\ born' = IF Here(e) THEN born ELSE [born EXCEPT ![e] = @ + 1]
        /\ adrift' = adrift \cup Clash(t) \cup Drifted(t)
        /\ astray' = astray \cup Clash(t) \cup Unsteadied(t) \cup (IF Here(e) /\ ~row[e].on THEN {e} ELSE {})
        /\ Release /\ Return(t)
        /\ UNCHANGED <<cnt, icnt, rt, job, base, counters>>

(* DelInboundClient: the row goes, Xray is called, the inbound is saved, each *)
(* on its own.  The last client of an inbound stays.                          *)
DelRead(t, e) ==
    /\ inb.list[e] > 0 /\ (inb.list[e] > 1 \/ Listed(inb.list) # {e})
    /\ Begin(t, [Idle EXCEPT !.op = "del", !.e = e, !.pc = "row", !.inb = inb])

DelRow(t) ==
    LET e == th[t].e
    IN  /\ At(t, "del", "row") /\ lock = Free
        /\ IF Here(e) THEN Go(t, IF row[e].on THEN "call" ELSE "save") /\ UNCHANGED need
                      ELSE Abort(t)
        /\ row' = [row EXCEPT ![e] = NoRow]
        /\ UNCHANGED <<cnt, icnt, rt, inb, lock, job, base, born, adrift, astray, counters>>

DelCall(t, ok) ==
    /\ At(t, "del", "call")
    /\ Reach(ok)
    /\ rt' = DropUsers(ok, rt, {th[t].e})
    /\ th' = [th EXCEPT ![t].pc = "save", ![t].ask = ~ok \/ ~rt.tag]
    /\ UNCHANGED <<cnt, icnt, row, inb, lock, job, need, base, born, adrift, astray, caused, bytes, ops>>

DelSave(t) ==
    LET e == th[t].e
    IN  /\ At(t, "del", "save") /\ lock = Free
        /\ Save(t, [th[t].inb.list EXCEPT ![e] = @ - 1])
        /\ adrift' = adrift \cup Clash(t) \cup Drifted(t)
        \* Of an email that was there twice, one entry stays, without row or user.
        /\ astray' = astray \cup Clash(t) \cup Unsteadied(t)
                     \cup (IF th[t].inb.list[e] > 1 THEN {e} ELSE {})
        /\ Return(t)
        /\ UNCHANGED <<cnt, icnt, rt, row, lock, job, base, born, counters>>

(* UpdateInboundClient: the client's row is switched on, he is removed from   *)
(* Xray and added again, the inbound is saved.                                *)
UpdRead(t, e) ==
    /\ inb.list[e] > 0
    /\ Begin(t, [Idle EXCEPT !.op = "upd", !.e = e, !.pc = "tx", !.inb = inb])

UpdTx(t, ok) ==
    LET e == th[t].e
    IN  /\ At(t, "upd", "tx") /\ lock = Free
        /\ lock' = t
        /\ Reach(ok)
        /\ rt' = AddUser(ok, DropUsers(ok, rt, {e}), e)
        /\ th' = [th EXCEPT ![t].pc = "commit", ![t].ask = ~ok \/ ~rt.tag]
        /\ UNCHANGED <<cnt, icnt, row, inb, job, need, base, born, adrift, astray, caused, bytes, ops>>

UpdCommit(t) ==
    LET e == th[t].e
    IN  /\ At(t, "upd", "commit")
        /\ Save(t, th[t].inb.list)
        /\ row' = IF Here(e) THEN [row EXCEPT ![e].on = TRUE] ELSE row
        /\ adrift' = adrift \cup Clash(t) \cup Drifted(t)
        /\ astray' = astray \cup Clash(t) \cup Unsteadied(t)
        /\ Release /\ Return(t)
        /\ UNCHANGED <<cnt, icnt, rt, job, base, born, counters>>

(* UpdateInbound: what is saved is the inbound as the browser had loaded it,  *)
(* its traffic and its list included; rows are deleted and inserted for the   *)
(* difference to the list in the database, which is read just before.         *)
InbOpen(t) == Begin(t, Page(inb))

Gone(t) == Listed(inb.list) \ Listed(th[t].inb.list)
New(t) == Listed(th[t].inb.list) \ Listed(inb.list)

InbTx(t, ok) ==
    LET page == th[t].inb
    IN  /\ At(t, "inb", "tx") /\ lock = Free
        /\ lock' = t
        /\ \A e \in New(t) : ~Here(e)
        /\ Reach(ok)
        /\ rt' = IF ok THEN [rt EXCEPT !.tag = page.on,
                                       !.users = IF page.on THEN Listed(page.list) ELSE {}]
                       ELSE rt
        /\ th' = [th EXCEPT ![t].pc = "commit", ![t].ask = page.on /\ ~ok]
        \* Nobody asks for anything when only the removal was due and failed.
        /\ astray' = IF ~ok /\ ~page.on THEN Emails ELSE astray
        /\ UNCHANGED <<cnt, icnt, row, inb, job, need, base, born, adrift, caused, bytes, ops>>

\* A row that is to be inserted is there already.
InbFails(t) ==
    /\ At(t, "inb", "tx") /\ lock = Free
    /\ \E e \in New(t) : Here(e)
    /\ Abort(t)
    /\ UNCHANGED <<cnt, icnt, rt, row, inb, lock, job, base, born, adrift, astray, counters>>

InbCommit(t) ==
    /\ At(t, "inb", "commit")
    /\ row' = [e \in Emails |-> IF e \in Gone(t) THEN NoRow
                                ELSE IF e \in New(t) THEN NewRow(e) ELSE row[e]]
    /\ born' = [e \in Emails |-> IF e \in New(t) THEN born[e] + 1 ELSE born[e]]
    /\ Save(t, th[t].inb.list)
    \* Xray was given every client of the page.
    /\ astray' = astray \cup Clash(t) \cup {e \in Listed(th[t].inb.list) : Here(e) /\ ~row[e].on}
    /\ adrift' = adrift \cup Clash(t)
    /\ Release /\ Return(t)
    /\ UNCHANGED <<cnt, icnt, rt, job, base, counters>>

-------------------------------------------------------------------------------
JobStep == JobRead \/ (\E ok \in BOOLEAN : JobCalls(ok)) \/ JobCommit

Requests(t) ==
    \/ \E e \in Emails : ResetRead(t, e) \/ AddCheck(t, e) \/ DelRead(t, e) \/ UpdRead(t, e)
    \/ InbOpen(t)

HandlerStep(t) ==
    \/ \E ok \in BOOLEAN : ResetCall(t, ok) \/ AddTx(t, ok) \/ DelCall(t, ok)
                           \/ UpdTx(t, ok) \/ InbTx(t, ok)
    \/ ResetSave(t) \/ AddRead(t) \/ AddCommit(t) \/ DelRow(t) \/ DelSave(t)
    \/ UpdCommit(t) \/ InbFails(t) \/ InbCommit(t)

Next ==
    \/ \E e \in Emails : Carry(e) \/ BotReset(e)
    \/ XrayDies \/ RestartXray \/ ResetAll
    \/ JobStep \/ JobReadLost \/ JobFails
    \/ \E t \in Threads : Requests(t) \/ HandlerStep(t)

Spec == Init /\ [][Next]_vars

(* The job fires again and again, handlers that have begun go on, and a       *)
(* restart asked for, or an Xray that is down, is attended to.                *)
Fairness ==
    /\ WF_vars(JobStep)
    /\ SF_vars(RestartXray)
    /\ \A t \in Threads : SF_vars(HandlerStep(t))

FairSpec == Spec /\ Fairness

-------------------------------------------------------------------------------
Rows == [id : Nat, used : Nat, on : BOOLEAN]
Inbounds == [list : [Emails -> Nat], used : Nat, on : BOOLEAN]
Locals == [pc : {"idle", "read", "row", "tx", "call", "save", "commit"},
           op : {"none", "reset", "add", "del", "upd", "inb"},
           e : Emails, row : Rows, inb : Inbounds, ask : BOOLEAN]

(* Types; the lock is held by whoever is inside a transaction and by nobody   *)
(* else.                                                                      *)
TypeOK ==
    /\ cnt \in [Emails -> Nat] /\ icnt \in Nat
    /\ rt \in [up : BOOLEAN, tag : BOOLEAN, users : SUBSET Emails]
    /\ base \in [tag : BOOLEAN, list : [Emails -> Nat]]
    /\ row \in [Emails -> Rows] /\ inb \in Inbounds
    /\ lock \in Threads \cup {Free, TheJob}
    /\ job \in [pc : {"idle", "got", "tx"}, got : [Emails -> Nat], igot : Nat, ask : BOOLEAN]
    /\ th \in [Threads -> Locals]
    /\ need \in BOOLEAN /\ born \in [Emails -> Nat] /\ caused \in [Emails -> Nat]
    /\ adrift \subseteq Emails /\ astray \subseteq Emails
    /\ job.pc = "idle" => job = NoJob
    /\ job.pc = "tx" <=> lock = TheJob
    /\ \A t \in Threads : th[t].pc = "commit" <=> lock = t
    /\ \A t \in Threads : th[t].op = "del" => th[t].inb.list[th[t].e] > 0

(* The accounting of the clients: from Xray's counters, over the job's        *)
(* memory, to their rows.                                                     *)
Account == INSTANCE Meter WITH
    Clients <- Emails,
    caused <- caused,
    open <- [e \in Emails |-> cnt[e] + job.got[e]],
    charged <- [e \in Emails |-> row[e].used]

(* Whatever is interleaved, lost or restarted, no client is charged twice for *)
(* the same traffic, nor for any he has not caused, and a charge is only      *)
(* taken back whole (inbound.go:939-1064, 1767-1845; xray.go:295-312).        *)
Metered == Account!Spec

(* The settings and client_traffics name the same clients, once each, but for *)
(* those a stale save has overwritten and while one is being deleted          *)
(* (inbound.go:121-139, 553-648, 742-812).                                    *)
BooksAgree ==
    \A e \in Emails \ adrift :
        \/ inb.list[e] = IF Here(e) THEN 1 ELSE 0
        \/ \E t \in Threads : th[t].op = "del" /\ th[t].e = e

Quiet == rt.up /\ ~need /\ job.pc = "idle" /\ \A t \in Threads : th[t] = Idle

(* With every handler and the job at rest and no restart asked for, Xray lets *)
(* in exactly the entitled clients, apart from those whom an overlap of the   *)
(* listed kinds has put out of step.                                          *)
InStep ==
    Quiet => \A e \in Emails \ astray : (e \in rt.users /\ rt.tag) <=> Entitled(e)

(* In the end nobody over his quota is left in Xray, apart from those: the    *)
(* next pass of the job finds him, whatever was lost or reset in between.     *)
OverQuotaIsShutOut ==
    <>[](\A e \in Emails \ astray : Over(e) => e \notin rt.users)
===============================================================================
