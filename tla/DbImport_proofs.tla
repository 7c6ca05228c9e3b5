---------------------------- MODULE DbImport_proofs ----------------------------
(* Imports of a database: types, what one fault can destroy, and what the      *)
(* panel works on, for any number of imports and requests.                     *)
EXTENDS DbImport, FiniteSetTheorems, TLAPS

\* While nothing was begun beside another import, one request is at work at most.
Alone == \A t, u \in Importers : pc[t] # "idle" /\ pc[u] # "idle" => t = u

\* The copy is where its request believes it, and what may be opened is complete.
AllCopied ==
    /\ at["path"] \in copied \cup {None} /\ at["backup"] \in copied \cup {None}
    /\ conn \in copied \cup {None}
    /\ \A t \in Importers :
        /\ pc[t] = "copy" => mine[t] = at["temp"]
        /\ pc[t] \in {"check", "stop", "clear", "away", "place"} => at["temp"] \in copied

\* Where the database last accepted is, step by step.
Kept ==
    /\ home \in {at["path"], at["backup"]}
    /\ \A t \in Importers :
        /\ pc[t] \notin {"idle", "place", "migrate", "start", "restore"} => at["path"] = home
        /\ pc[t] \in {"place", "migrate", "start", "restore"} => at["backup"] = home
        /\ pc[t] \in {"migrate", "start"} => at["path"] # None
        /\ pc[t] = "start" => conn = at["path"]
        /\ pc[t] = "restore" => faults >= 1

IInv ==
    /\ TypeOK
    /\ \A t \in Importers : pc[t] # "idle" => conn # None
    /\ ~gap => Alone /\ AllCopied
    /\ ~gap /\ faults <= 1 => Kept
(* There is always a file left to create: what is in use is three names, two  *)
(* handles and one upload for each request.                                   *)
LEMMA FileLeft == NewFile \in Unused
<1> DEFINE Mine == {mine[t] : t \in Importers}
           Rest == {at[n] : n \in Places} \cup {conn, home}
<1>1. IsFiniteSet(Mine) /\ Cardinality(Mine) <= Cardinality(Importers)
  <2>1. [t \in Importers |-> mine[t]] \in Surjection(Importers, Mine)
    BY DEF Surjection
  <2>2. QED
    BY <2>1, FilesSuffice, FS_Surjection
<1>2. IsFiniteSet(Rest) /\ Cardinality(Rest) <= 5
  <2>1. Rest = (((({} \cup {at["path"]}) \cup {at["temp"]}) \cup {at["backup"]}) \cup {conn}) \cup {home}
    BY DEF Places
  <2> DEFINE A == {} \cup {at["path"]}
             B == A \cup {at["temp"]}
             C == B \cup {at["backup"]}
             D == C \cup {conn}
  <2>2. IsFiniteSet(A) /\ Cardinality(A) \in Nat /\ Cardinality(A) <= 1
    BY FS_EmptySet, FS_AddElement
  <2> HIDE DEF A
  <2>3. IsFiniteSet(B) /\ Cardinality(B) \in Nat /\ Cardinality(B) <= 2
    BY <2>2, FS_AddElement
  <2> HIDE DEF B
  <2>4. IsFiniteSet(C) /\ Cardinality(C) \in Nat /\ Cardinality(C) <= 3
    BY <2>3, FS_AddElement
  <2> HIDE DEF C
  <2>5. IsFiniteSet(D) /\ Cardinality(D) \in Nat /\ Cardinality(D) <= 4
    BY <2>4, FS_AddElement
  <2> HIDE DEF D
  <2>6. Rest = D \cup {home}
    BY <2>1 DEF A, B, C, D
  <2> HIDE DEF Rest, D
  <2>7. QED
    BY <2>5, <2>6, FS_AddElement
<1>3. IsFiniteSet(Rest \cup Mine) /\ Cardinality(Rest \cup Mine) <= Cardinality(Importers) + 5
  <2>1. /\ Cardinality(Rest) \in Nat /\ Cardinality(Mine) \in Nat
        /\ Cardinality(Rest \cap Mine) \in Nat /\ Cardinality(Importers) \in Nat
    BY <1>1, <1>2, FilesSuffice, FS_CardinalityType, FS_Intersection
  <2> HIDE DEF Rest, Mine
  <2>2. /\ IsFiniteSet(Rest \cup Mine)
        /\ Cardinality(Rest \cup Mine) = Cardinality(Rest) + Cardinality(Mine) - Cardinality(Rest \cap Mine)
    BY <1>1, <1>2, FS_Union
  <2>3. QED
    BY <2>1, <2>2, <1>1, <1>2
<1>4. ~(Files \subseteq Rest \cup Mine)
  <2>1. Cardinality(Files) \in Nat /\ Cardinality(Importers) \in Nat /\ Cardinality(Rest \cup Mine) \in Nat
    BY <1>3, FilesSuffice, FS_CardinalityType
  <2> HIDE DEF Rest, Mine
  <2>2. SUFFICES ASSUME Files \subseteq Rest \cup Mine PROVE FALSE
    OBVIOUS
  <2>3. Cardinality(Files) <= Cardinality(Rest \cup Mine)
    BY <1>3, <2>2, FS_Subset
  <2>4. QED
    BY <1>3, <2>1, <2>3, FilesSuffice
<1>5. \E f \in Files : f \notin Rest \cup Mine
  BY <1>4
<1>6. Unused # {}
  BY <1>5 DEF Unused
<1>7. QED
  BY <1>6 DEF NewFile

(* At the start.                                                              *)
LEMMA InitHolds == Init => IInv
<1> SUFFICES ASSUME Init PROVE IInv
  OBVIOUS
<1>1. home \in Files
  <2>1. Files # {}
    BY FilesSuffice, FS_EmptySet, FS_CardinalityType
  <2>2. QED
    BY <2>1 DEF Init
<1>2. TypeOK
  <2>1. at \in [Places -> Files \cup {None}]
    BY <1>1 DEF Init, Named
  <2>2. conn = home /\ copied = {home} /\ fit = {home}
    BY DEF Init
  <2>3. /\ mine \in [Importers -> Files \cup {None}] /\ pc \in [Importers -> PC]
        /\ \A t \in Importers : mine[t] # None <=> pc[t] = "copy"
    BY DEF Init, PC
  <2>4. xray = "up" /\ gap = FALSE /\ begun \in 0..MaxImports /\ faults \in 0..MaxFaults
    BY BoundsAreNat DEF Init
  <2>5. QED
    BY <1>1, <2>1, <2>2, <2>3, <2>4 DEF TypeOK
<1>3. QED
  BY <1>1, <1>2, FilesSuffice DEF Init, IInv, Alone, AllCopied, Kept, Named, Places

(* A database that is opened, or made where there is none.                    *)
LEMMA Opened ==
    ASSUME TypeOK, NEW n \in Places, InitDB(n)
    PROVE  /\ at' \in [Places -> Files \cup {None}] /\ at'[n] # None
           /\ conn' = at'[n] /\ conn' \in Files
           /\ copied \subseteq copied' /\ copied' \subseteq Files /\ fit' \subseteq copied'
           /\ \A m \in Places \ {n} : at'[m] = at[m]
           /\ at[n] # None => at' = at /\ copied' = copied /\ fit' = fit
           /\ at[n] = None => conn' \in copied'
<1>1. NewFile \in Files
  BY FileLeft DEF Unused
<1>2. QED
  BY <1>1, FilesSuffice DEF InitDB, TypeOK, Places

(* A start of Xray that may fail.                                             *)
LEMMA RestartKeeps ==
    ASSUME TypeOK, RestartXray
    PROVE  /\ xray' \in {"up", "stopped", "down"}
           /\ faults' \in 0..MaxFaults /\ faults' >= faults
BY BoundsAreNat DEF RestartXray, Unstopped, Fault, TypeOK

(* Every step preserves the invariant.                                        *)
LEMMA NextKeeps == IInv /\ [Next]_vars => IInv'
<1> SUFFICES ASSUME IInv, [Next]_vars PROVE IInv'
  OBVIOUS
<1> USE FilesSuffice, BoundsAreNat DEF IInv, TypeOK, Alone, AllCopied, Kept, Places, PC, Goto
<1>1. ASSUME NEW t \in Importers, Begin(t) PROVE IInv'
  <2> DEFINE f == NewFile
  <2>1. f \in Files /\ f \notin {conn, home} /\ f # None /\ \A n \in Places : f # at[n]
    BY FileLeft DEF Unused
  <2>2. /\ pc[t] = "idle" /\ pc' = [pc EXCEPT ![t] = "copy"]
        /\ at' = [at EXCEPT !["temp"] = f] /\ mine' = [mine EXCEPT ![t] = f]
        /\ copied' = copied \ {f} /\ fit' = fit \ {f} /\ conn # None /\ begun < MaxImports /\ begun' = begun + 1
        /\ gap' = (gap \/ at["path"] # home \/ \E u \in Importers \ {t} : pc[u] # "idle")
        /\ UNCHANGED <<conn, xray, home, faults>>
    BY <1>1 DEF Begin
  <2> HIDE DEF f
  <2>3. TypeOK'
    BY <2>1, <2>2
  <2>4. \A u \in Importers : pc'[u] # "idle" => conn' # None
    BY <2>2
  <2>5. ~gap' => ~gap /\ at["path"] = home /\ \A u \in Importers : u # t => pc'[u] = "idle"
    BY <2>2
  <2>6. ~gap' => (Alone /\ AllCopied)'
    BY <2>1, <2>2, <2>5
  <2>7. ~gap' /\ faults' <= 1 => Kept'
    BY <2>1, <2>2, <2>5
  <2>8. QED
    BY <2>3, <2>4, <2>6, <2>7
<1>2. ASSUME NEW t \in Importers, Copy(t) PROVE IInv'
  BY <1>2 DEF Copy
<1>3. ASSUME NEW t \in Importers, CopyFails(t) PROVE IInv'
  BY <1>3 DEF CopyFails, Fault
<1>4. ASSUME NEW t \in Importers, Check(t) PROVE IInv'
  BY <1>4, Opened DEF Check
<1>5. ASSUME NEW t \in Importers, StopXrayService(t) PROVE IInv'
  BY <1>5 DEF StopXrayService
<1>6. ASSUME NEW t \in Importers, Clear(t) PROVE IInv'
  BY <1>6 DEF Clear
<1>7. ASSUME NEW t \in Importers, Away(t) PROVE IInv'
  BY <1>7 DEF Away
<1>8. ASSUME NEW t \in Importers, Place(t) PROVE IInv'
  BY <1>8 DEF Place
<1>9. ASSUME NEW t \in Importers, Migrate(t) PROVE IInv'
  BY <1>9, Opened DEF Migrate
<1>10. ASSUME NEW t \in Importers, Start(t) PROVE IInv'
  BY <1>10, RestartKeeps DEF Start
<1>11. ASSUME NEW t \in Importers, Fails(t) PROVE IInv'
  BY <1>11, Opened DEF Fails, Fault, Missing, AfterError
<1>12. ASSUME NEW t \in Importers, Restore(t) PROVE IInv'
  <2>1. CASE at' = at /\ Fault
    BY <1>12, <2>1 DEF Restore, Fault
  <2>2. CASE at' = Restored /\ UNCHANGED faults
    <3>1. TypeOK' /\ (at'["path"] = at["path"] \/ at'["path"] = at["backup"])
                 /\ (at'["backup"] = at["backup"] \/ at'["backup"] = None)
                 /\ (at["backup"] # None => at'["path"] = at["backup"])
                 /\ at'["temp"] = at["temp"]
      BY <1>12, <2>2 DEF Restore, Restored
    <3>2. ~gap' => (Alone /\ AllCopied)'
      BY <1>12, <3>1 DEF Restore
    <3>3. ~gap' /\ faults' <= 1 => Kept'
      BY <1>12, <2>2, <3>1 DEF Restore
    <3>4. QED
      BY <1>12, <3>1, <3>2, <3>3 DEF Restore
  <2>3. QED
    BY <1>12, <2>1, <2>2 DEF Restore
<1>13. ASSUME NEW t \in Importers, Cleanup(t) PROVE IInv'
  BY <1>13 DEF Cleanup
<1>14. ASSUME NEW t \in Importers, Tidy(t) PROVE IInv'
  BY <1>14 DEF Tidy
<1>15. ASSUME NEW t \in Importers, Restart(t) PROVE IInv'
  BY <1>15, RestartKeeps DEF Restart, Restarted
<1>16. CASE Kill
  BY <1>16 DEF Kill, Fault
<1>17. CASE Boot
  BY <1>17, Opened, RestartKeeps DEF Boot
<1>18. CASE CheckXrayRunning
  BY <1>18, RestartKeeps DEF CheckXrayRunning
<1>19. CASE UNCHANGED vars
  BY <1>19 DEF vars
<1>20. QED
  BY <1>1, <1>2, <1>3, <1>4, <1>5, <1>6, <1>7, <1>8, <1>9, <1>10, <1>11, <1>12, <1>13, <1>14, <1>15, <1>16, <1>17, <1>18, <1>19 DEF Next, Steps

(* The inductive invariant of every reachable state.                          *)
THEOREM Invariant == Spec => []IInv
<1>1. Init => IInv
  BY InitHolds
<1>2. IInv /\ [Next]_vars => IInv'
  BY NextKeeps
<1>3. QED
  BY <1>1, <1>2, PTL DEF Spec

(* The types, however many files, requests, imports and faults there are      *)
(* (server.go:668-760).                                                       *)
THEOREM TypeCorrect == Spec => []TypeOK
<1>1. IInv => TypeOK
  BY DEF IInv
<1>2. QED
  BY <1>1, Invariant, PTL

(* One fault never costs the database last accepted, but for the known gap    *)
(* (server.go:709-760).                                                       *)
THEOREM OneFaultCostsNothing == Spec => []NothingThrownAway
<1>1. IInv => NothingThrownAway
  BY DEF IInv, Kept, NothingThrownAway
<1>2. QED
  BY <1>1, Invariant, PTL

(* Neither the panel nor its next start works on a copy cut short by an       *)
(* error, however many faults there are, but for the known gap                *)
(* (server.go:668-705).                                                       *)
THEOREM WorksOnlyOnCopied == Spec => []WorksOnCopied
<1>1. IInv => WorksOnCopied
  BY DEF IInv, AllCopied, WorksOnCopied
<1>2. QED
  BY <1>1, Invariant, PTL
================================================================================
