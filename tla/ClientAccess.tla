----------------------------- MODULE ClientAccess -----------------------------
(***************************************************************************)
(* Who may use an inbound, and who can: the database (the clients in the   *)
(* inbound's settings, their rows of client_traffics) against the running  *)
(* Xray, which the panel changes in two ways -- user by user over its API  *)
(* (web/service/inbound.go) and by restarting it with a configuration made *)
(* from the database (web/service/xray.go).                                *)
(*                                                                         *)
(* One inbound.  Every handler and every pass of the traffic job is one    *)
(* step: calls of two handlers are not interleaved here.  RestartXray is   *)
(* three steps, because its mutex excludes none of the handlers.  A call   *)
(* over the API either takes effect or fails; the calls of one handler     *)
(* fail together.  XraySupervisor models the restarts themselves.          *)
(***************************************************************************)
EXTENDS Naturals, FiniteSets

CONSTANTS
    Emails,
    Renewing,    \* clients with reset > 0
    TheInbound,  \* the inbound itself, as a member of astray
    MaxOps,      \* bound: operations of the administrator
    MaxRunsOut,  \* bound: quotas and terms that run out
    MaxApiErrs,  \* bound: handlers whose API calls fail although Xray is up
    MaxCrashes   \* bound: deaths of Xray

ASSUME RenewingEmails == Renewing \subseteq Emails
ASSUME InboundIsNoEmail == TheInbound \notin Emails
ASSUME BoundsNat ==
    MaxOps \in Nat /\ MaxRunsOut \in Nat /\ MaxApiErrs \in Nat /\ MaxCrashes \in Nat

VARIABLES
    inb,       \* row of the inbound: "none", "off", "on" (its enable)
    inbOver,   \* its own traffic or term has run out
    settings,  \* clients in its settings: "absent", or their enable "off", "on"
    row,       \* client_traffics.enable: "none", "off", "on"
    spent,     \* rows whose up + down has reached total
    expired,   \* rows whose expiry_time has passed
    up,        \* Xray runs
    rt,        \* Xray: does the inbound's handler exist, and its users
    base,      \* the configuration Xray was started with
    need,      \* isNeedXrayRestart
    rs,        \* RestartXray: "idle", "read", "built"
    force,     \* its argument
    snap,      \* the configuration it has built
    astray,    \* history: what a known way out of step has put out of step
    ops, runsOut, apiErrs, crashes  \* counters for the bounds

db == <<inb, inbOver, settings, row, spent, expired>>
restart == <<rs, force, snap>>
counters == <<ops, runsOut, apiErrs, crashes>>
vars == <<inb, inbOver, settings, row, spent, expired, up, rt, base, need, rs, force, snap,
          astray, ops, runsOut, apiErrs, crashes>>

Nothing == [tag |-> FALSE, users |-> {}]
Members == {e \in Emails : settings[e] # "absent"}

\* What GetXrayConfig keeps of a client: a client without a row passes.
Passes(e) == settings[e] = "on" /\ row[e] # "off"
Entitled(e) == inb = "on" /\ Passes(e)
Config ==
    IF inb = "on" THEN [tag |-> TRUE, users |-> {e \in Emails : Passes(e)}] ELSE Nothing

(* The API, one call for each member of a set. *)

Added(ok, r, A) == IF ok /\ r.tag THEN [r EXCEPT !.users = @ \cup A] ELSE r
AddErr(ok, r, A) == A # {} /\ (~ok \/ ~r.tag \/ A \cap r.users # {})

Removed(ok, r, A) == IF ok THEN [r EXCEPT !.users = @ \ A] ELSE r

\* "User not found" is no error.
RemoveErr(ok, r, A) == A # {} /\ (~ok \/ ~r.tag)

\* Can the calls of this step get through?
Reach(ok) ==
    /\ ok => up
    /\ IF up /\ ~ok THEN apiErrs < MaxApiErrs /\ apiErrs' = apiErrs + 1 ELSE UNCHANGED apiErrs

Ask(err) == need' = (need \/ err)

-------------------------------------------------------------------------------
(* A panel that starts: some terms may have run out while it was away. *)
Init ==
    /\ inb = "on" /\ inbOver = FALSE
    /\ settings \in [Emails -> {"absent", "off", "on"}] /\ \E e \in Emails : settings[e] # "absent"
    /\ row = [e \in Emails |-> IF settings[e] = "absent" THEN "none" ELSE "on"]
    /\ spent = {}
    /\ expired \in SUBSET {e \in Emails : settings[e] # "absent"}
    /\ up = FALSE /\ rt = Nothing /\ base = Nothing
    /\ need = FALSE
    /\ rs = "idle" /\ force = FALSE /\ snap = Nothing
    /\ astray = {}
    /\ ops = 0 /\ runsOut = 0 /\ apiErrs = 0 /\ crashes = 0

(* AddTraffic after the counters are added: renew, cut off clients, cut off *)
(* the inbound; D are the clients whose traffic has just reached the total. *)

Renewed(D) == {e \in Members : row[e] # "none" /\ e \in Renewing /\ e \in expired}

\* Renewal switches on over the API whoever's row was off.
Revived(D) == {e \in Renewed(D) : row[e] = "off"}

\* Mutant of CutOff: clients whose term has passed are forgotten.
MutantCutOff(D) == {e \in Emails : row[e] = "on" /\ e \in (spent \cup D) \ Renewed(D)}

CutOff(D) ==
    {e \in Emails : (row[e] = "on" \/ e \in Revived(D))
                    /\ e \in ((spent \cup D) \cup expired) \ Renewed(D)}

CutInbound == inb = "on" /\ inbOver

\* Xray after the calls of AddTraffic.
Housekept(ok, D) ==
    LET r == Removed(ok, Added(ok, rt, Revived(D)), CutOff(D))
    IN  IF CutInbound /\ ok THEN Nothing ELSE r

HousekeepErr(ok, D) ==
    \/ AddErr(ok, rt, Revived(D))
    \/ RemoveErr(ok, rt, CutOff(D))
    \/ CutInbound /\ (~ok \/ ~rt.tag)

Housekeep(ok, D) ==
    /\ Reach(ok)
    /\ row' = [e \in Emails |-> IF e \in CutOff(D) THEN "off"
                                ELSE IF e \in Renewed(D) THEN "on" ELSE row[e]]
    /\ spent' = (spent \cup D) \ Renewed(D)
    /\ expired' = expired \ Renewed(D)
    /\ inb' = IF CutInbound THEN "off" ELSE inb
    /\ rt' = Housekept(ok, D)
    \* A client switched off in the settings is revived all the same.
    /\ astray' = astray \cup {e \in Revived(D) : settings[e] = "off"}

(* XrayTrafficJob.Run, every 10 s while Xray runs. *)
TrafficJob(ok, D) ==
    /\ up /\ D \subseteq {e \in rt.users : row[e] # "none"} \ spent
    /\ runsOut + Cardinality(D) <= MaxRunsOut
    /\ runsOut' = runsOut + Cardinality(D)
    /\ Housekeep(ok, D)
    /\ Ask(HousekeepErr(ok, D))
    /\ UNCHANGED <<inbOver, settings, up, base, restart, ops, crashes>>

-------------------------------------------------------------------------------
(* The administrator's handlers, with the controller's SetToNeedRestart. *)

Op == ops < MaxOps /\ ops' = ops + 1

\* AddInboundClient.
AddClient(e, en, ok) ==
    /\ Op /\ inb # "none" /\ settings[e] = "absent"
    /\ Reach(ok)
    /\ settings' = [settings EXCEPT ![e] = en]
    /\ row' = [row EXCEPT ![e] = "on"]
    /\ LET A == IF en = "on" THEN {e} ELSE {}
       IN  rt' = Added(ok, rt, A) /\ Ask(AddErr(ok, rt, A))
    /\ UNCHANGED <<inb, inbOver, spent, expired, up, base, restart, astray, runsOut, crashes>>

\* DelInboundClient: the last client cannot go.
DelClient(e, ok) ==
    /\ Op /\ e \in Members /\ Members # {e} /\ row[e] # "none"
    /\ Reach(ok)
    /\ settings' = [settings EXCEPT ![e] = "absent"]
    /\ row' = [row EXCEPT ![e] = "none"]
    /\ spent' = spent \ {e} /\ expired' = expired \ {e}
    /\ LET A == IF settings[e] = "on" /\ row[e] = "on" THEN {e} ELSE {}
       IN  rt' = Removed(ok, rt, A) /\ Ask(RemoveErr(ok, rt, A))
    /\ UNCHANGED <<inb, inbOver, up, base, restart, astray, runsOut, crashes>>

\* UpdateInboundClient, and what calls it: the bot's toggle, quota and term.
\* "renewed": the edit puts an end to what had run out.
UpdateClient(e, en, renewed, ok) ==
    /\ Op /\ e \in Members
    /\ Reach(ok)
    /\ settings' = [settings EXCEPT ![e] = en]
    /\ row' = [row EXCEPT ![e] = IF @ = "none" THEN @ ELSE "on"]
    /\ IF renewed THEN spent' = spent \ {e} /\ expired' = expired \ {e}
                  ELSE UNCHANGED <<spent, expired>>
    /\ LET old == IF settings[e] = "on" THEN {e} ELSE {}
           new == IF en = "on" THEN {e} ELSE {}
       IN  /\ rt' = Added(ok, Removed(ok, rt, old), new)
           /\ Ask(RemoveErr(ok, rt, old) \/ AddErr(ok, Removed(ok, rt, old), new))
    /\ UNCHANGED <<inb, inbOver, up, base, restart, astray, runsOut, crashes>>

\* Mutant of ResetAdds: the row's enable is not looked at any more.
MutantResetAdds(e) == {}

\* Whom ResetClientTraffic gives back to Xray.
ResetAdds(e) == IF row[e] = "off" /\ settings[e] = "on" THEN {e} ELSE {}

\* ResetClientTraffic.
ResetClient(e, ok) ==
    /\ Op /\ row[e] # "none" /\ inb # "none"
    /\ Reach(ok)
    /\ rt' = Added(ok, rt, ResetAdds(e)) /\ Ask(AddErr(ok, rt, ResetAdds(e)))
    /\ row' = [row EXCEPT ![e] = "on"] /\ spent' = spent \ {e}
    /\ UNCHANGED <<inb, inbOver, settings, expired, up, base, restart, astray, runsOut, crashes>>

\* ResetClientTrafficByEmail, the bot's: no call of Xray, no restart asked for.
BotResetClient(e) ==
    /\ Op /\ row[e] # "none"
    /\ row' = [row EXCEPT ![e] = "on"] /\ spent' = spent \ {e}
    /\ astray' = IF row[e] = "off" THEN astray \cup {e} ELSE astray
    /\ UNCHANGED <<inb, inbOver, settings, expired, up, rt, base, need, restart,
                   runsOut, apiErrs, crashes>>

\* ResetAllClientTraffics and the controller's unconditional SetToNeedRestart.
ResetAllClients ==
    /\ Op
    /\ row' = [e \in Emails |-> IF row[e] = "none" THEN "none" ELSE "on"]
    /\ spent' = {}
    /\ need' = TRUE
    /\ UNCHANGED <<inb, inbOver, settings, expired, up, rt, base, restart, astray,
                   runsOut, apiErrs, crashes>>

\* Rows that are off and never renewed.
Depleted == {e \in Emails : row[e] = "off" /\ e \notin Renewing}

\* Mutant of DeletedRows: "reset = 0" is forgotten in the second query.
MutantDeletedRows == {e \in Emails : row[e] = "off"}

\* The rows the final DELETE of DelDepletedClients takes.
DeletedRows == Depleted

\* DelDepletedClients: the clients leave the settings, then the rows go.
DelDepleted ==
    LET gone == Depleted
        left == Members \ gone
    IN  /\ Op /\ gone # {}
        /\ row' = [e \in Emails |-> IF e \in DeletedRows \/ left = {} THEN "none" ELSE row[e]]
        /\ settings' = [e \in Emails |-> IF e \in left THEN settings[e] ELSE "absent"]
        /\ spent' = spent \ gone /\ expired' = expired \ gone
        /\ IF left # {}
           THEN UNCHANGED <<inb, rt, astray, apiErrs>>
           \* DelInbound; its request for a restart is ignored here.
           ELSE \E ok \in BOOLEAN :
                  /\ IF inb = "on" THEN Reach(ok) ELSE UNCHANGED apiErrs
                  /\ inb' = "none"
                  /\ rt' = IF inb = "on" /\ ok THEN Nothing ELSE rt
                  /\ astray' = IF inb = "on" /\ ~ok THEN astray \cup {TheInbound} ELSE astray
        /\ UNCHANGED <<inbOver, up, base, need, restart, runsOut, crashes>>

\* Xray gets the inbound with every client of its settings, entitled or not.
Pushed(en, members) == IF en = "on" THEN [tag |-> TRUE, users |-> members] ELSE Nothing

\* UpdateInbound: remove and add over the API.  Nothing is asked for when the
\* removal fails.
UpdateInbound(en, renewed, ok) ==
    /\ Op /\ inb # "none"
    /\ Reach(ok)
    /\ inb' = en
    /\ inbOver' = (inbOver /\ ~renewed)
    /\ rt' = IF ok THEN Pushed(en, Members) ELSE rt
    /\ Ask(en = "on" /\ ~ok)
    /\ astray' = IF ~ok THEN IF en = "on" THEN astray ELSE astray \cup {TheInbound}
                 ELSE IF en = "on" THEN astray \cup {e \in Members : ~Passes(e)} ELSE astray
    /\ UNCHANGED <<settings, row, spent, expired, up, base, restart, runsOut, crashes>>

\* AddInbound (and importInbound) with the clients S, some of them off.
AddInbound(S, offs, en, ok) ==
    /\ Op /\ inb = "none" /\ S # {} /\ offs \subseteq S
    /\ Reach(ok)
    /\ inb' = en /\ inbOver' = FALSE
    /\ settings' = [e \in Emails |-> IF e \in offs THEN "off" ELSE IF e \in S THEN "on" ELSE "absent"]
    /\ row' = [e \in Emails |-> IF e \in S THEN "on" ELSE row[e]]
    /\ rt' = IF en = "on" /\ ok /\ ~rt.tag THEN Pushed(en, S) ELSE rt
    /\ Ask(en = "on" /\ (~ok \/ rt.tag))
    /\ astray' = IF en = "on" THEN astray \cup offs ELSE astray
    /\ UNCHANGED <<spent, expired, up, base, restart, runsOut, crashes>>

\* DelInbound.
DelInbound(ok) ==
    /\ Op /\ inb # "none"
    /\ IF inb = "on" THEN Reach(ok) ELSE UNCHANGED apiErrs
    /\ inb' = "none"
    /\ settings' = [e \in Emails |-> "absent"]
    /\ row' = [e \in Emails |-> "none"]
    /\ spent' = {} /\ expired' = {}
    /\ rt' = IF inb = "on" /\ ok THEN Nothing ELSE rt
    /\ Ask(inb = "on" /\ (~ok \/ ~rt.tag))
    /\ UNCHANGED <<inbOver, up, base, restart, astray, runsOut, crashes>>

-------------------------------------------------------------------------------
(* RestartXray. *)

\* GetXrayConfig reads inbounds and client rows first.
RestartRead ==
    /\ rs = "idle"
    /\ rs' = "read"
    /\ snap' = Config
    \* an administrator, the 30 s job, or the check job
    /\ \/ force' = TRUE /\ Op /\ UNCHANGED need
       \/ force' = FALSE /\ need /\ need' = FALSE /\ UNCHANGED ops
       \/ force' = FALSE /\ ~up /\ UNCHANGED <<need, ops>>
    /\ UNCHANGED <<db, up, rt, base, astray, runsOut, apiErrs, crashes>>

\* AddTraffic(nil, nil) comes second, and its result is ignored.
RestartHousekeep(ok) ==
    /\ rs = "read" /\ rs' = "built"
    /\ Housekeep(ok, {})
    /\ UNCHANGED <<inbOver, settings, up, base, need, force, snap, ops, runsOut, crashes>>

\* Where a runtime r and the database disagree.
OutOfStep(r) ==
    {e \in Emails : ~(e \in r.users <=> Entitled(e))}
    \cup (IF r.tag <=> inb = "on" THEN {} ELSE {TheInbound})

CanSkip == up /\ ~force /\ snap = base /\ ~need

\* "It does not need to restart Xray".
SkipRestart ==
    /\ rs = "built" /\ CanSkip
    /\ rs' = "idle" /\ snap' = Nothing /\ force' = FALSE
    /\ astray' = astray \cup OutOfStep(rt)
    /\ UNCHANGED <<db, up, rt, base, need, counters>>

\* A new process; whoever's right to use it changed since the read is out of step.
StartXray ==
    /\ rs = "built" /\ ~CanSkip
    /\ up' = TRUE /\ rt' = snap /\ base' = snap
    /\ rs' = "idle" /\ snap' = Nothing /\ force' = FALSE
    /\ astray' = OutOfStep(snap)
    /\ UNCHANGED <<db, need, counters>>

(* The surroundings. *)

Expires(e) ==
    /\ row[e] # "none" /\ e \notin expired
    /\ runsOut < MaxRunsOut /\ runsOut' = runsOut + 1
    /\ expired' = expired \cup {e}
    /\ UNCHANGED <<inb, inbOver, settings, row, spent, up, rt, base, need, restart, astray,
                   ops, apiErrs, crashes>>

InboundRunsOut ==
    /\ inb # "none" /\ ~inbOver
    /\ runsOut < MaxRunsOut /\ runsOut' = runsOut + 1
    /\ inbOver' = TRUE
    /\ UNCHANGED <<inb, settings, row, spent, expired, up, rt, base, need, restart, astray,
                   ops, apiErrs, crashes>>

XrayDies ==
    /\ up /\ crashes < MaxCrashes /\ crashes' = crashes + 1
    /\ up' = FALSE /\ rt' = Nothing
    /\ UNCHANGED <<db, base, need, restart, astray, ops, runsOut, apiErrs>>

ClientOps(e, ok) ==
    \/ \E en \in {"off", "on"} : AddClient(e, en, ok)
    \/ DelClient(e, ok)
    \/ \E en \in {"off", "on"}, renewed \in BOOLEAN : UpdateClient(e, en, renewed, ok)
    \/ ResetClient(e, ok)
    \/ BotResetClient(e)

InboundOps(ok) ==
    \/ \E en \in {"off", "on"}, renewed \in BOOLEAN : UpdateInbound(en, renewed, ok)
    \/ \E S \in SUBSET Emails : \E offs \in SUBSET S, en \in {"off", "on"} : AddInbound(S, offs, en, ok)
    \/ DelInbound(ok)

Jobs(ok) == \E D \in SUBSET Emails : TrafficJob(ok, D)
RestartSteps(ok) == RestartRead \/ RestartHousekeep(ok) \/ SkipRestart \/ StartXray

Next ==
    \/ \E ok \in BOOLEAN : \/ \E e \in Emails : ClientOps(e, ok)
                           \/ InboundOps(ok)
                           \/ Jobs(ok) \/ RestartSteps(ok)
    \/ ResetAllClients \/ DelDepleted
    \/ \E e \in Emails : Expires(e)
    \/ InboundRunsOut \/ XrayDies

Spec == Init /\ [][Next]_vars

(* The jobs keep firing and RestartXray, once begun, goes on.  Its force is   *)
(* the administrator's and never due; requests and dead processes are.        *)
JobRestart == (need \/ ~up) /\ RestartRead /\ ~force'
RestartEnds == (\E ok \in BOOLEAN : RestartHousekeep(ok)) \/ SkipRestart \/ StartXray
Fairness ==
    /\ WF_vars(\E ok \in BOOLEAN : Jobs(ok))
    /\ WF_vars(JobRestart \/ RestartEnds)

FairSpec == Spec /\ Fairness

-------------------------------------------------------------------------------
Runtimes == [tag : BOOLEAN, users : SUBSET Emails]

(* Types; a client of the settings has its row of client_traffics and no one  *)
(* else has one.                                                              *)
TypeOK ==
    /\ inb \in {"none", "off", "on"} /\ inbOver \in BOOLEAN
    /\ settings \in [Emails -> {"absent", "off", "on"}]
    /\ row \in [Emails -> {"none", "off", "on"}]
    /\ \A e \in Emails : settings[e] = "absent" <=> row[e] = "none"
    /\ spent \subseteq Members /\ expired \subseteq Members
    /\ up \in BOOLEAN /\ need \in BOOLEAN /\ force \in BOOLEAN
    /\ rt \in Runtimes /\ base \in Runtimes /\ snap \in Runtimes
    /\ rs \in {"idle", "read", "built"}
    /\ astray \subseteq Emails \cup {TheInbound}

(* While no restart is asked for or under way, whoever is entitled can        *)
(* connect and nobody else can, after every sequence of edits, resets,        *)
(* expiries, renewals, failed API calls and deaths of Xray -- but for what    *)
(* the five known ways out of step have touched since Xray was started: the   *)
(* restart's early read, its skip, the whole-inbound push, the renewal of a   *)
(* client that is switched off, the bot's reset (and a removal of the whole   *)
(* inbound whose failure nobody asks a restart for).  inbound.go:553-1301,    *)
(* 1767-1827.                                                                 *)
InSync ==
    up /\ ~need /\ rs = "idle" /\ TheInbound \notin astray =>
        /\ rt.tag <=> inb = "on"
        /\ \A e \in Emails \ astray : e \in rt.users <=> Entitled(e)

(* A client whose traffic or term has run out does not keep its row: the job  *)
(* disables or renews it (inbound.go:1127-1301, xray_traffic_job.go:23-47),   *)
(* whatever crashes and API failures come first.                              *)
RunsOutIsNoticed ==
    \A e \in Emails : (row[e] = "on" /\ e \in spent \cup expired)
                         ~> ~(row[e] = "on" /\ e \in spent \cup expired)
===============================================================================
