------------------------------ MODULE Supervision ------------------------------
(***************************************************************************)
(* What the panel promises about the one Xray it keeps: it is replaced in  *)
(* sessions of which there is one at a time; a session installs, at most   *)
(* once, the configuration that was the saved one when it looked; and an   *)
(* edit that asks to be looked at is due until a session has looked.       *)
(*                                                                         *)
(* Abstract: XraySupervisor is shown to implement it.                      *)
(***************************************************************************)
CONSTANTS Configs, NoConfig

VARIABLES
    saved,  \* the configuration in the database
    runs,   \* the one the kept process runs; NoConfig when none is kept
    phase,  \* of the session under way: "closed" when there is none
    taken,  \* the configuration it has taken and not yet acted on
    due     \* somebody is still to look at what has been saved

vars == <<saved, runs, phase, taken, due>>

Init == /\ saved \in Configs
        /\ runs = NoConfig /\ taken = NoConfig
        /\ phase = "closed"
        /\ due = FALSE

\* An edit asks for somebody to look, or was made known to Xray on the side, or
\* nobody asks.
Edit ==
    /\ saved' \in Configs /\ due' \in {due, TRUE}
    /\ UNCHANGED <<runs, phase, taken>>

Open ==
    /\ phase = "closed" /\ phase' = "config"
    /\ UNCHANGED <<saved, runs, taken, due>>

\* Looking at what is saved: the only step after which nothing may be due.
Take ==
    /\ phase = "config" /\ phase' = "decide"
    /\ taken' = saved
    /\ due' \in {due, FALSE}
    /\ UNCHANGED <<saved, runs>>

\* Only a process that runs just that may be kept.
Keep ==
    /\ phase = "decide" /\ runs \in {taken, NoConfig}
    /\ phase' = "closed" /\ taken' = NoConfig
    /\ UNCHANGED <<saved, runs, due>>

\* The new process may fail to start.
Install ==
    /\ phase = "decide" /\ runs' \in {taken, NoConfig}
    /\ phase' \in {"start", "closed"} /\ taken' = NoConfig
    /\ UNCHANGED <<saved, due>>

Close ==
    /\ phase \in {"config", "start"} /\ phase' = "closed"
    /\ UNCHANGED <<saved, runs, taken, due>>

\* The kept process ends or is told to.
Lose ==
    /\ runs' = NoConfig
    /\ UNCHANGED <<saved, phase, taken, due>>

Next == Edit \/ Open \/ Take \/ Keep \/ Install \/ Close \/ Lose

Spec == Init /\ [][Next]_vars
================================================================================
