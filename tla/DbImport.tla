-------------------------------- MODULE DbImport --------------------------------
(***************************************************************************)
(* The import of a database (ServerService.ImportDB under the controller's *)
(* importDB): an uploaded file is copied beside the panel's database,      *)
(* opened, and put in its place by two renames, with a backup to go back   *)
(* to.  Files are what a name leads to: a handle stays on its file when    *)
(* the name goes.                                                          *)
(*                                                                         *)
(* Nothing keeps two imports apart, and they use the same names.  Of an    *)
(* upload only the first 16 bytes are looked at before it is opened, so    *)
(* the panel may come to work on one that it cannot make a configuration   *)
(* for Xray of.                                                            *)
(***************************************************************************)
EXTENDS FiniteSets, Naturals

CONSTANTS
    Files,       \* files that can be told apart
    None,        \* no file
    Importers,   \* requests that may import at the same time
    MaxImports,  \* bound: imports begun
    MaxFaults    \* bound: file operations that fail, and kills of the panel

ASSUME FilesSuffice ==
    /\ IsFiniteSet(Files) /\ IsFiniteSet(Importers) /\ None \notin Files
    /\ Cardinality(Files) > Cardinality(Importers) + 5

ASSUME BoundsAreNat == MaxImports \in Nat /\ MaxFaults \in Nat

Places == {"path", "temp", "backup"}

VARIABLES
    at,       \* at[n]: the file with this name
    conn,     \* the file the panel's handle is on; None when the panel is down
    copied,   \* files whose writing has not been cut short
    fit,      \* files GetXrayConfig can make a configuration of
    mine,     \* mine[t]: the file t copies its upload into
    pc,       \* pc[t]: the next step of ImportDB
    xray,     \* "up", "stopped" (isManuallyStopped), or "down" otherwise
    home,     \* the database last accepted as the panel's
    gap,      \* an import ran beside another one, or without home in its place
    begun, faults

vars == <<at, conn, copied, fit, mine, pc, xray, home, gap, begun, faults>>

PC == {"idle", "copy", "check", "stop", "clear", "away", "place", "migrate", "start",
       "restore", "cleanup", "tidy", "restart"}

Unused == Files \ ({at[n] : n \in Places} \cup {conn, home} \cup {mine[t] : t \in Importers})

\* A file just made; which one does not matter.
NewFile == CHOOSE f \in Unused : TRUE

Named(f) == [n \in Places |-> IF n = "path" THEN f ELSE None]

Init ==
    /\ home = CHOOSE f \in Files : TRUE
    /\ at = Named(home) /\ conn = home /\ copied = {home} /\ fit = {home}
    /\ mine = [t \in Importers |-> None]
    /\ pc = [t \in Importers |-> "idle"]
    /\ xray = "up" /\ gap = FALSE /\ begun = 0 /\ faults = 0

Goto(t, from, to) == pc[t] = from /\ pc' = [pc EXCEPT ![t] = to]

Fault == faults < MaxFaults /\ faults' = faults + 1

\* InitDB: SQLite makes a file that is not there, and the models fill it.
InitDB(n) ==
    IF at[n] # None
    THEN conn' = at[n] /\ UNCHANGED <<at, copied, fit>>
    ELSE /\ at' = [at EXCEPT ![n] = NewFile]
         /\ conn' = NewFile /\ copied' = copied \cup {NewFile} /\ fit' = fit \cup {NewFile}

(* RestartXray clears isManuallyStopped before GetXrayConfig can fail, which  *)
(* leaves Xray as it is; a start that fails comes after the stop.             *)
Unstopped == IF xray = "stopped" THEN "down" ELSE xray

RestartXray ==
    \/ conn' \in fit' /\ xray' = "up" /\ UNCHANGED faults
    \/ conn' \notin fit' /\ xray' = Unstopped /\ UNCHANGED faults
    \/ Fault /\ xray' \in {Unstopped, "down"}

-------------------------------------------------------------------------------
(* The steps of ImportDB. *)

\* The old temporary file is removed and a new one created.
Begin(t) ==
    /\ conn # None /\ Goto(t, "idle", "copy")
    /\ begun < MaxImports /\ begun' = begun + 1
    /\ at' = [at EXCEPT !.temp = NewFile] /\ mine' = [mine EXCEPT ![t] = NewFile]
    /\ copied' = copied \ {NewFile} /\ fit' = fit \ {NewFile}
    /\ gap' = (gap \/ at.path # home \/ \E u \in Importers \ {t} : pc[u] # "idle")
    /\ UNCHANGED <<conn, xray, home, faults>>

\* Mutant of Copy: the temporary file is still being written when it is opened.
MutantCopy(t) ==
    /\ Goto(t, "copy", "check")
    /\ copied' = copied \cup {mine[t]} /\ fit' \in {fit, fit \cup {mine[t]}}
    /\ UNCHANGED <<at, conn, mine, xray, home, gap, begun, faults>>

\* The upload has been copied; whether it is any good is not known.
Copy(t) ==
    /\ Goto(t, "copy", "check")
    /\ copied' = copied \cup {mine[t]} /\ fit' \in {fit, fit \cup {mine[t]}}
    /\ mine' = [mine EXCEPT ![t] = None]
    /\ UNCHANGED <<at, conn, xray, home, gap, begun, faults>>

\* Mutant of CopyFails: the error of the copy is not looked at.
MutantCopyFails(t) ==
    /\ Goto(t, "copy", "check") /\ Fault
    /\ mine' = [mine EXCEPT ![t] = None]
    /\ UNCHANGED <<at, conn, copied, fit, xray, home, gap, begun>>

CopyFails(t) ==
    /\ Goto(t, "copy", "tidy") /\ Fault
    /\ mine' = [mine EXCEPT ![t] = None]
    /\ UNCHANGED <<at, conn, copied, fit, xray, home, gap, begun>>

\* "Check if we can init the db or not": the upload becomes the panel's database,
\* also when it is then refused.
Check(t) ==
    /\ Goto(t, "check", "stop") \/ Goto(t, "check", "tidy")
    /\ InitDB("temp")
    /\ UNCHANGED <<mine, xray, home, gap, begun, faults>>

StopXrayService(t) ==
    /\ Goto(t, "stop", "clear")
    /\ xray' = "stopped"
    /\ UNCHANGED <<at, conn, copied, fit, mine, home, gap, begun, faults>>

Clear(t) ==
    /\ Goto(t, "clear", "away")
    /\ at' = [at EXCEPT !.backup = None]
    /\ UNCHANGED <<conn, copied, fit, mine, xray, home, gap, begun, faults>>

Away(t) ==
    /\ at.path # None /\ Goto(t, "away", "place")
    /\ at' = [at EXCEPT !.backup = at.path, !.path = None]
    /\ UNCHANGED <<conn, copied, fit, mine, xray, home, gap, begun, faults>>

Place(t) ==
    /\ at.temp # None /\ Goto(t, "place", "migrate")
    /\ at' = [at EXCEPT !.path = at.temp, !.temp = None]
    /\ UNCHANGED <<conn, copied, fit, mine, xray, home, gap, begun, faults>>

Migrate(t) ==
    /\ Goto(t, "migrate", "start") /\ InitDB("path")
    /\ UNCHANGED <<mine, xray, home, gap, begun, faults>>

\* MigrateDB and RestartXrayService, whose error is returned.
Start(t) ==
    /\ Goto(t, "start", "cleanup")
    /\ home' = conn
    /\ UNCHANGED <<at, conn, copied, fit, mine, gap, begun>>
    /\ RestartXray

\* An operation that fails, or whose file another import has taken.
Missing(t) == \/ pc[t] = "away" /\ at.path = None
              \/ pc[t] = "place" /\ at.temp = None

AfterError(s) == IF s \in {"clear", "away"} THEN "tidy" ELSE "restore"

Fails(t) ==
    /\ pc[t] \in {"clear", "away", "place", "migrate"}
    /\ pc' = [pc EXCEPT ![t] = AfterError(pc[t])]
    /\ (Missing(t) /\ UNCHANGED faults) \/ Fault
    /\ IF pc[t] = "migrate" THEN InitDB("path") ELSE UNCHANGED <<at, conn, copied, fit>>
    /\ UNCHANGED <<mine, xray, home, gap, begun>>

\* Mutant of Restored: the way back is forgotten.
MutantRestored == at

Restored == IF at.backup = None THEN at ELSE [at EXCEPT !.path = at.backup, !.backup = None]

Restore(t) ==
    /\ Goto(t, "restore", "cleanup")
    /\ (at' = Restored /\ UNCHANGED faults) \/ (at' = at /\ Fault)
    /\ UNCHANGED <<conn, copied, fit, mine, xray, home, gap, begun>>

-------------------------------------------------------------------------------
(* The deferred functions, the last deferred first. *)

\* "ONLY if everything goes well", but it was deferred for every return.
Cleanup(t) ==
    /\ Goto(t, "cleanup", "tidy")
    /\ at' = [at EXCEPT !.backup = None]
    /\ UNCHANGED <<conn, copied, fit, mine, xray, home, gap, begun, faults>>

Tidy(t) ==
    /\ Goto(t, "tidy", "restart")
    /\ at' = [at EXCEPT !.temp = None]
    /\ UNCHANGED <<conn, copied, fit, mine, xray, home, gap, begun, faults>>

\* Mutant of Restarted: only an import that went well starts Xray again.
MutantRestarted == UNCHANGED <<xray, faults>>

\* Its error is not looked at.
Restarted == RestartXray

Restart(t) ==
    /\ Goto(t, "restart", "idle")
    /\ UNCHANGED <<at, conn, copied, fit, mine, home, gap, begun>>
    /\ Restarted

-------------------------------------------------------------------------------
(* CheckXrayRunningJob, on finding Xray down for the second time. *)
CheckXrayRunning ==
    /\ conn # None /\ xray = "down"
    /\ UNCHANGED <<at, conn, copied, fit, mine, pc, home, gap, begun>>
    /\ RestartXray

(* The panel is killed at any moment, and started again by its service. *)
Kill ==
    /\ conn # None /\ Fault
    /\ conn' = None /\ xray' = "down"
    /\ mine' = [t \in Importers |-> None] /\ pc' = [t \in Importers |-> "idle"]
    /\ UNCHANGED <<at, copied, fit, home, gap, begun>>

Boot ==
    /\ conn = None /\ InitDB("path")
    /\ RestartXray
    /\ UNCHANGED <<mine, pc, home, gap, begun>>

Steps(t) ==
    \/ Copy(t) \/ Check(t) \/ StopXrayService(t) \/ Clear(t) \/ Away(t) \/ Place(t)
    \/ Migrate(t) \/ Start(t) \/ Fails(t) \/ Restore(t) \/ Cleanup(t) \/ Tidy(t) \/ Restart(t)

Next == Kill \/ Boot \/ CheckXrayRunning \/ \E t \in Importers : Begin(t) \/ CopyFails(t) \/ Steps(t)

Spec == Init /\ [][Next]_vars

\* A request runs to its end, the service is started again, and the job fires.
FairSpec ==
    /\ Spec /\ WF_vars(Boot) /\ WF_vars(CheckXrayRunning)
    /\ \A t \in Importers : WF_vars(Steps(t))

-------------------------------------------------------------------------------
TypeOK ==
    /\ at \in [Places -> Files \cup {None}]
    /\ conn \in Files \cup {None} /\ home \in Files
    /\ copied \subseteq Files /\ fit \subseteq copied
    /\ mine \in [Importers -> Files \cup {None}]
    /\ pc \in [Importers -> PC]
    /\ \A t \in Importers : mine[t] # None <=> pc[t] = "copy"
    /\ xray \in {"up", "stopped", "down"} /\ gap \in BOOLEAN
    /\ begun \in 0..MaxImports /\ faults \in 0..MaxFaults

(* Whatever single thing fails, and wherever the panel is killed, the         *)
(* database last accepted is at the panel's path or in the backup, for as     *)
(* long as no import runs beside another or is begun while it is not at the   *)
(* path (server.go:709-760).                                                  *)
NothingThrownAway == faults <= 1 /\ ~gap => home \in {at.path, at.backup}

(* Neither what the panel works on, nor what it would work on when started    *)
(* again, is a copy cut short by an error, unless another import has put its  *)
(* own under the same name (server.go:668-705).  Whether the upload was any   *)
(* good is another matter: InitDB moves the handle before it can fail.        *)
WorksOnCopied == ~gap => {conn, at.path} \subseteq copied \cup {None}

(* However an import ends, and whatever start of Xray fails meanwhile, Xray,  *)
(* which it stops, comes back, unless the panel now works on a database it    *)
(* cannot make a configuration of (server.go:708, 754; controller/            *)
(* server.go:236-238).                                                        *)
XrayComesBack == []<>(xray = "up" \/ conn \in Files \ fit)
===============================================================================
