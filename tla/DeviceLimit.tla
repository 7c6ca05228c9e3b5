------------------------------ MODULE DeviceLimit ------------------------------
(***************************************************************************)
(* The device limit of an inbound: CheckDeviceLimitJob in                  *)
(* web/job/check_client_ip_job.go, run every 10 s by a goroutine of        *)
(* main.go.  A pass forgets addresses older than TTL, reads what is new in *)
(* Xray's access log, and compares each user's addresses with the limit.   *)
(* A user over the limit is observed first, then banned: his credential in *)
(* Xray is replaced by a random one, in two API calls 5 s apart, and put   *)
(* back the same way.  Meanwhile handlers and the traffic job change the   *)
(* same users, Xray restarts, and CheckClientIpJob truncates the log.      *)
(*                                                                         *)
(* One inbound.  Time is counted in ticks of the job; ages saturate, so    *)
(* nothing bounds how long the system runs.  TTL and Observe are both 18   *)
(* ticks in the code, and a comparison at exactly that age goes either way *)
(* (the clock is read four times in a pass).                               *)
(***************************************************************************)
EXTENDS Integers, FiniteSets

CONSTANTS
    Users, NoUser,
    IPs,
    TTL,         \* activeTTL
    Observe,     \* the observation period
    Limits,      \* device limits an administrator may set; 0 is none
    MaxEdits,    \* bound: edits of the inbound, and clients switched on, off, added, deleted
    MaxCrashes,  \* bound: deaths and restarts of Xray
    MaxErrs,     \* bound: API calls of the job that fail although Xray is up
    MaxTruncs    \* bound: truncations of the access log

ASSUME NoUserIsNone == NoUser \notin Users
ASSUME TimesPositive == TTL \in Nat \ {0} /\ Observe \in Nat \ {0}
ASSUME LimitsNat == Limits \subseteq Nat

VARIABLES
    limit,     \* the inbound's device_limit
    client,    \* database: "none", or switched "off" or "on" (settings and row together)
    up,        \* Xray runs
    rt,        \* Xray: the credential a user has: "none", "real" or "temp" (random)
    unread,    \* <<user, ip>> of the log lines behind lastPosition
    beyond,    \* the log was truncated and lastPosition lies past its end
    age,       \* ActiveClientIPs: ticks since an address was seen, or Never
    viol,      \* violationStartTime: ticks since it was set, or Never
    banned,    \* ClientStatus
    pc,        \* "idle", "visit", or asleep in "ban" or "unban"
    lim,       \* the limit this pass has read
    todo,      \* users this pass has still to look at
    cur,       \* whom it is banning or unbanning
    overFor,   \* history: ticks a user has been over the limit without a break
    astray,    \* history: whom a known gap has put out of step
    edits, crashes, errs, truncs  \* counters for the bounds

log == <<unread, beyond>>
job == <<age, viol, banned, pc, lim, todo, cur, overFor>>
vars == <<limit, client, up, rt, unread, beyond, age, viol, banned, pc, lim, todo, cur,
          overFor, astray, edits, crashes, errs, truncs>>

Never == -1

\* One tick older; nothing distinguishes ages above top.
Older(a, top) == IF a = Never \/ a = top THEN a ELSE a + 1

Active(u) == {i \in IPs : age[u][i] # Never}
Online(u) == Active(u) # {}
Over(u) == Cardinality(Active(u)) > lim

-------------------------------------------------------------------------------
Init ==
    /\ limit \in Limits
    /\ client \in [Users -> {"off", "on"}]
    /\ up = FALSE /\ rt = [u \in Users |-> "none"]
    \* the log outlives the panel, and the first pass reads it from its start
    /\ unread \in SUBSET (Users \X IPs) /\ beyond = FALSE
    /\ age = [u \in Users |-> [i \in IPs |-> Never]]
    /\ viol = [u \in Users |-> Never]
    /\ banned = {}
    /\ pc = "idle" /\ lim = 0 /\ todo = {} /\ cur = NoUser
    /\ overFor = [u \in Users |-> Never]
    /\ astray = {}
    /\ edits = 0 /\ crashes = 0 /\ errs = 0 /\ truncs = 0

(* Run: nothing while Xray is down, but time goes by. *)
SkipPass ==
    /\ pc = "idle" /\ ~up
    /\ age' = [u \in Users |-> [i \in IPs |-> Older(age[u][i], TTL + 1)]]
    /\ viol' = [u \in Users |-> Older(viol[u], Observe + 1)]
    /\ overFor' = [u \in Users |-> Older(overFor[u], Observe)]
    /\ UNCHANGED <<limit, client, up, rt, log, banned, pc, lim, todo, cur, astray,
                   edits, crashes, errs, truncs>>

\* Mutant of MustExpire: addresses never expire.
MutantExpire(a) == FALSE

\* cleanupExpiredIPs: now - lastSeen > TTL.
MustExpire(a) == a > TTL
MayExpire(a) == a = TTL

\* parseAccessLog: R is what it reads.
Parse(R) ==
    \* The position moves to the end of the file.  Lost are the lines written after
    \* the scanner's last read and, once the file has outgrown a position that lay
    \* past its end, those before that position.
    \/ R \in SUBSET unread /\ unread' = {} /\ beyond' = FALSE
    \* the file is shorter than lastPosition: nothing is read, the position is reset
    \/ beyond /\ R = {} /\ beyond' = FALSE /\ UNCHANGED unread

Aged(R, slow) ==
    [u \in Users |-> [i \in IPs |->
        LET a == Older(age[u][i], TTL + 1)
        IN  IF <<u, i>> \in R THEN 0
            ELSE IF MustExpire(a) \/ (MayExpire(a) /\ slow) THEN Never ELSE a]]

\* Mutant of Visited: the second loop, over banned users, is left out.
MutantVisited(online, limited) == IF limited THEN online ELSE {}

\* Users online, then banned users.
Visited(online, limited) == IF limited THEN online \cup banned ELSE {}

\* cleanup, parse, and the query of inbounds with a limit.
BeginPass ==
    /\ pc = "idle" /\ up
    /\ \E R \in SUBSET unread, slow \in BOOLEAN : Parse(R) /\ age' = Aged(R, slow)
    /\ viol' = [u \in Users |-> Older(viol[u], Observe + 1)]
    /\ LET active(u) == {i \in IPs : age'[u][i] # Never}
       IN  /\ overFor' = [u \in Users |-> IF limit = 0 \/ Cardinality(active(u)) <= limit THEN Never
                                          ELSE IF overFor[u] = Never THEN 0
                                          ELSE Older(overFor[u], Observe)]
           /\ todo' = Visited({u \in Users : active(u) # {}}, limit > 0)
    /\ pc' = IF limit > 0 THEN "visit" ELSE "idle"
    /\ lim' = limit
    /\ UNCHANGED <<limit, client, up, rt, banned, cur, astray, edits, crashes, errs, truncs>>

\* Users online come first; a user without a row is passed over.
Due(u) ==
    /\ pc = "visit" /\ u \in todo
    /\ Online(u) \/ ~\E w \in todo : Online(w)

Reach(ok) ==
    /\ ok => up
    /\ IF up /\ ~ok THEN errs < MaxErrs /\ errs' = errs + 1 ELSE UNCHANGED errs

\* RemoveUser; its result is ignored.  Then 5 s of sleep.
Begin(u, what) ==
    /\ \E ok \in BOOLEAN : Reach(ok) /\ rt' = IF ok THEN [rt EXCEPT ![u] = "none"] ELSE rt
    /\ pc' = what /\ cur' = u /\ todo' = todo \ {u}

Stays(u) ==
    /\ todo' = todo \ {u}
    /\ UNCHANGED <<rt, pc, cur, errs>>

Observed(u) == client[u] # "none" /\ Over(u) /\ u \notin banned

StartObserving(u) ==
    /\ Due(u) /\ Observed(u) /\ viol[u] = Never
    /\ viol' = [viol EXCEPT ![u] = 0]
    /\ Stays(u)

KeepObserving(u) ==
    /\ Due(u) /\ Observed(u) /\ viol[u] \in 0 .. Observe
    /\ UNCHANGED viol /\ Stays(u)

Ban(u) ==
    /\ Due(u) /\ Observed(u) /\ viol[u] >= Observe
    /\ viol' = [viol EXCEPT ![u] = Never]
    /\ Begin(u, "ban")

\* Within the limit: the observation ends.
WithinLimit(u) ==
    /\ Due(u) /\ client[u] # "none" /\ Online(u) /\ ~Over(u) /\ u \notin banned
    /\ viol' = [viol EXCEPT ![u] = Never]
    /\ Stays(u)

\* The second loop does not touch violationStartTime.
Unban(u) ==
    /\ Due(u) /\ client[u] # "none" /\ ~Over(u) /\ u \in banned
    /\ viol' = IF Online(u) THEN [viol EXCEPT ![u] = Never] ELSE viol
    /\ Begin(u, "unban")

PassOver(u) ==
    /\ Due(u) /\ (client[u] = "none" \/ (Over(u) /\ u \in banned))
    /\ UNCHANGED viol /\ Stays(u)

Visit(u) ==
    /\ \/ StartObserving(u) \/ KeepObserving(u) \/ Ban(u)
       \/ WithinLimit(u) \/ Unban(u) \/ PassOver(u)
    /\ UNCHANGED <<limit, client, up, log, age, banned, lim, overFor, astray, edits, crashes, truncs>>

\* AddUser fails when the user exists.
Adds(u, cred, ok) ==
    IF ok /\ rt[u] = "none" THEN rt' = [rt EXCEPT ![u] = cred] ELSE UNCHANGED rt
AddedNow(u, ok) == ok /\ rt[u] = "none"

\* Mutant of FinishBan: the user is marked although AddUser failed.
MutantFinishBan(ok) ==
    /\ pc = "ban" /\ Reach(ok)
    /\ Adds(cur, "temp", ok)
    /\ banned' = banned \cup {cur}
    /\ UNCHANGED astray

\* The random credential goes in.  When it does not, the user may be left
\* with none and unmarked.
FinishBan(ok) ==
    /\ pc = "ban" /\ Reach(ok)
    /\ Adds(cur, "temp", ok)
    /\ banned' = IF AddedNow(cur, ok) THEN banned \cup {cur} ELSE banned
    /\ astray' = IF ~AddedNow(cur, ok) /\ rt[cur] = "none" THEN astray \cup {cur} ELSE astray

\* Mutant of FinishUnban: the mark is removed although AddUser failed.
MutantFinishUnban(ok) ==
    /\ pc = "unban" /\ Reach(ok)
    /\ Adds(cur, "real", ok)
    /\ banned' = banned \ {cur}
    /\ UNCHANGED astray

\* The credential read from the database goes back, for a client that has been
\* switched off or deleted as for any other.
FinishUnban(ok) ==
    /\ pc = "unban" /\ Reach(ok)
    /\ Adds(cur, "real", ok)
    /\ banned' = IF AddedNow(cur, ok) THEN banned \ {cur} ELSE banned
    /\ astray' = IF ~AddedNow(cur, ok) THEN astray
                 ELSE IF client[cur] = "on" THEN astray \ {cur} ELSE astray \cup {cur}

Finish ==
    /\ \E ok \in BOOLEAN : FinishBan(ok) \/ FinishUnban(ok)
    /\ pc' = "visit" /\ cur' = NoUser
    /\ UNCHANGED <<limit, client, up, log, age, viol, lim, todo, overFor, edits, crashes, truncs>>

EndPass ==
    /\ pc = "visit" /\ todo = {}
    /\ pc' = "idle" /\ lim' = 0
    /\ UNCHANGED <<limit, client, up, rt, log, age, viol, banned, todo, cur, overFor, astray,
                   edits, crashes, errs, truncs>>

JobStep == SkipPass \/ BeginPass \/ (\E u \in Users : Visit(u)) \/ Finish \/ EndPass

-------------------------------------------------------------------------------
(* The handlers and the traffic job, as far as this inbound's users see them; *)
(* their API calls succeed here (ClientAccess has them fail).                 *)

Edited == edits < MaxEdits /\ edits' = edits + 1

\* disableInvalidClients, DelInboundClient or UpdateInboundClient takes a user away.
TakeAway(u, to) ==
    /\ Edited /\ client[u] # to /\ to \in {"none", "off"} /\ client[u] # "none"
    /\ client' = [client EXCEPT ![u] = to]
    /\ rt' = [rt EXCEPT ![u] = IF client[u] = "on" THEN "none" ELSE @]
    /\ UNCHANGED <<limit, up, log, job, astray, crashes, errs, truncs>>

\* AddInboundClient, ResetClientTraffic or UpdateInboundClient gives him his
\* credential, a banned one too, whose mark stays.  Only UpdateInboundClient
\* removes first, and only a client that is on.
Give(u) ==
    /\ Edited
    /\ client' = [client EXCEPT ![u] = "on"]
    /\ rt' = [rt EXCEPT ![u] = IF up /\ (client[u] = "on" \/ @ = "none") THEN "real" ELSE @]
    /\ astray' = IF u \in banned THEN astray \cup {u} ELSE astray
    /\ UNCHANGED <<limit, up, log, job, crashes, errs, truncs>>

\* UpdateInbound sets the limit and sends Xray every client of the settings.
EditInbound ==
    /\ Edited
    /\ limit' \in Limits
    /\ rt' = [u \in Users |-> IF up /\ client[u] # "none" THEN "real" ELSE "none"]
    /\ astray' = IF up THEN astray \cup banned \cup {u \in Users : client[u] = "off"} ELSE astray
    /\ UNCHANGED <<client, up, log, job, crashes, errs, truncs>>

\* XraySupervisor: an end and a new start, with the database's clients.
XrayEnds ==
    /\ up /\ crashes < MaxCrashes /\ crashes' = crashes + 1
    /\ up' = FALSE /\ rt' = [u \in Users |-> "none"]
    /\ UNCHANGED <<limit, client, log, job, astray, edits, errs, truncs>>

XrayStarts ==
    /\ ~up /\ up' = TRUE
    /\ rt' = [u \in Users |-> IF client[u] = "on" THEN "real" ELSE "none"]
    /\ astray' = banned
    /\ UNCHANGED <<limit, client, log, job, edits, crashes, errs, truncs>>

\* Xray logs whom it accepts.
Connect(u, i) ==
    /\ up /\ rt[u] = "real"
    /\ unread' = unread \cup {<<u, i>>}
    /\ UNCHANGED <<limit, client, up, rt, beyond, job, astray, edits, crashes, errs, truncs>>

\* CheckClientIpJob.clearAccessLog.
Truncate ==
    /\ truncs < MaxTruncs /\ truncs' = truncs + 1
    /\ unread' = {} /\ beyond' = TRUE
    /\ UNCHANGED <<limit, client, up, rt, job, astray, edits, crashes, errs>>

UserOps(u) == (\E to \in {"none", "off"} : TakeAway(u, to)) \/ Give(u)
EnvNext ==
    \/ \E u \in Users : UserOps(u) \/ \E i \in IPs : Connect(u, i)
    \/ EditInbound \/ XrayEnds \/ XrayStarts \/ Truncate

Next == JobStep \/ EnvNext

Spec == Init /\ [][Next]_vars

(* The goroutine's ticker keeps ticking and the jobs of XraySupervisor start   *)
(* Xray again.  No user has to connect and no administrator to do anything.    *)
Fairness == WF_vars(JobStep) /\ WF_vars(XrayStarts)

FairSpec == Spec /\ Fairness

-------------------------------------------------------------------------------
(* Types; and no address that a pass counts is older than the TTL.            *)
TypeOK ==
    /\ limit \in Limits /\ lim \in Limits \cup {0}
    /\ client \in [Users -> {"none", "off", "on"}]
    /\ up \in BOOLEAN /\ beyond \in BOOLEAN
    /\ rt \in [Users -> {"none", "real", "temp"}]
    /\ unread \subseteq Users \X IPs
    /\ \A u \in Users : age[u] \in [IPs -> Never .. IF pc = "idle" THEN TTL + 1 ELSE TTL]
    /\ viol \in [Users -> Never .. Observe + 1] /\ overFor \in [Users -> Never .. Observe]
    /\ banned \subseteq Users /\ todo \subseteq Users /\ astray \subseteq Users
    /\ pc \in {"idle", "visit", "ban", "unban"}
    /\ cur \in Users \cup {NoUser}
    /\ cur = NoUser <=> pc \in {"idle", "visit"}

(* Whoever holds a random credential is marked as banned, so that the job     *)
(* will give him his own back: after any failed call, restart of Xray, edit   *)
(* or deletion, also one that falls into the 5 s between the two calls        *)
(* (check_client_ip_job.go:349-416).                                          *)
TempIsKnown == \A u \in Users : rt[u] = "temp" => u \in banned

(* Between the job's calls, a banned user does not hold his own credential    *)
(* and everybody else holds it exactly when the database has him switched on  *)
(* -- but for users one of the known gaps has touched since Xray started: a   *)
(* start, an edit or a whole-inbound push while banned, an unban of somebody  *)
(* switched off or deleted, a ban whose second call fails.                    *)
InStep ==
    up => \A u \in Users \ (astray \cup {cur}) :
            IF u \in banned THEN rt[u] # "real" ELSE rt[u] = "real" <=> client[u] = "on"

(* Every ban ends: banned users cannot connect, their addresses age, and the  *)
(* job puts their credential back, whatever calls fail in between -- unless   *)
(* the limit or the client goes away, or a gap has given it back already.     *)
BansEnd ==
    \A u \in Users :
        u \in banned ~> (u \notin banned \/ limit = 0 \/ client[u] = "none" \/ u \in astray)

(* check_client_ip_job.go:52 "no ban when a user is first found over the      *)
(* limit; wait three minutes and ban if he still is".                         *)
ObservedBeforeBan ==
    [][pc = "visit" /\ pc' = "ban" => overFor[cur'] >= Observe]_vars
===============================================================================
