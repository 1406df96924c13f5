----------------------------- MODULE StoresProofs -----------------------------
(***************************************************************************)
(* Theorems about what is kept on disk: Blocklist, for any tickers,        *)
(* visitors and cap, and Backup, for any sources and any numbers of runs,  *)
(* of runs at a time, of deaths and of backups to keep.                    *)
(*                                                                         *)
(* An add that nothing crossed since it read still fits: the list holds at *)
(* most what the add saw, since only another add makes it longer, so what  *)
(* it is about to insert is not there and does not take it past the cap.   *)
(*                                                                         *)
(* A run that meets no other is alone with its folder until it renames it, *)
(* with everything in it (Copied, Whole).  What counts as one of the newest *)
(* backups only ever stops counting, when a newer one is named; so what a  *)
(* pruner listed as old stays old, and what a sweeper listed either has     *)
(* ended without its final name or belongs to a run that met another       *)
(* (Pruning, Sweeping): neither takes anything from a backup that counts.  *)
(***************************************************************************)
EXTENDS Blocklist, Backup, FiniteSetTheorems, TLAPS

-----------------------------------------------------------------------------
(* The blocklist *)

\* What an add in progress has read and is about to insert.
Adds == [have : SUBSET Ticker, new : SUBSET Ticker]

\* The rows, the adds and the answers keep their types.
ListTypeOK ==
  /\ listed \subseteq Ticker /\ crossed \subseteq Visitor
  /\ adding \in [Visitor -> Adds \cup {None}]
  /\ told \in [Visitor -> {"nothing", "not a ticker", "full", "added", "error"}]

\* What an add that nothing crossed has read still holds, and what it adds fits.
StillFits ==
  \A v \in Visitor \ crossed : adding[v] # None =>
    /\ listed \subseteq adding[v].have
    /\ adding[v].new \cap adding[v].have = {}
    /\ RoomFor(adding[v].have, adding[v].new)

ListInv == ListTypeOK /\ StillFits

\* The initial states satisfy the inductive invariant.
LEMMA InitList == ListInit => ListInv
  BY DEF ListInit, ListInv, ListTypeOK, StillFits

\* Every step keeps it: an insert crosses the other adds, a removal shortens the list.
LEMMA StepList ==
  ASSUME ListInv, [ListNext]_listVars
  PROVE  ListInv'
<1> None \notin Adds
  BY NoAddAssumption DEF Adds
<1> USE DEF ListInv, ListTypeOK
<1>1. ASSUME NEW v \in Visitor, NEW typed \in SUBSET Ticker, RefuseTypo(v, typed)
      PROVE  ListInv'
  BY <1>1 DEF RefuseTypo, StillFits
<1>2. ASSUME NEW v \in Visitor, NEW typed \in SUBSET Ticker, ReadList(v, typed)
      PROVE  ListInv'
  <2> DEFINE add == [have |-> listed, new |-> typed \ listed]
  <2>0. add \in Adds /\ add.have = listed /\ add.new = typed \ listed
    BY DEF Adds
  <2> HIDE DEF add
  <2>1. CASE RoomFor(listed, typed \ listed)
    <3>1. /\ adding' = [adding EXCEPT ![v] = add] /\ told' = [told EXCEPT ![v] = "nothing"]
          /\ crossed' = crossed \ {v} /\ listed' = listed
      BY <1>2, <2>1 DEF ReadList, add
    <3>2. ListTypeOK'
      BY <2>0, <3>1
    <3>3. RoomFor(add.have, add.new)
      BY <2>0, <2>1
    <3>4. StillFits'
      BY <2>0, <3>1, <3>3 DEF StillFits, RoomFor
    <3> QED
      BY <3>2, <3>4
  <2>2. CASE ~RoomFor(listed, typed \ listed)
    <3>1. /\ adding' = adding /\ told' = [told EXCEPT ![v] = "full"]
          /\ crossed' = crossed \ {v} /\ listed' = listed /\ adding[v] = None
      BY <1>2, <2>2 DEF ReadList
    <3> QED
      BY <3>1 DEF StillFits
  <2> QED
    BY <2>1, <2>2
<1>3. ASSUME NEW v \in Visitor, InsertNew(v)
      PROVE  ListInv'
  <2>0. adding[v] \in Adds /\ adding' = [adding EXCEPT ![v] = None]
    BY <1>3 DEF InsertNew
  <2>1. CASE adding[v].new \cap listed = {}
    <3>1. /\ listed' = listed \cup adding[v].new /\ told' = [told EXCEPT ![v] = "added"]
          /\ crossed' = crossed \cup {w \in Visitor \ {v} : adding[w] # None}
      BY <1>3, <2>1 DEF InsertNew
    <3>2. adding[v].new \subseteq Ticker
      BY <2>0 DEF Adds
    <3>3. ListTypeOK'
      BY <2>0, <3>1, <3>2
    <3>4. StillFits'
      BY <2>0, <3>1 DEF StillFits
    <3> QED
      BY <3>3, <3>4
  <2>2. CASE adding[v].new \cap listed # {}
    <3>1. UNCHANGED <<listed, crossed>> /\ told' = [told EXCEPT ![v] = "error"]
      BY <1>3, <2>2 DEF InsertNew
    <3>2. StillFits'
      BY <2>0, <3>1 DEF StillFits, RoomFor
    <3> QED
      BY <2>0, <3>1, <3>2
  <2> QED
    BY <2>1, <2>2
<1>4. ASSUME NEW v \in Visitor, NEW t \in Ticker, RemoveTicker(v, t)
      PROVE  ListInv'
  BY <1>4 DEF RemoveTicker, StillFits
<1>5. CASE UNCHANGED listVars
  BY <1>5 DEF listVars, StillFits
<1> HIDE DEF ListInv, ListTypeOK
<1> QED
  BY <1>1, <1>2, <1>3, <1>4, <1>5 DEF ListNext

\* The inductive invariant.
THEOREM ListInvariant == ListSpec => []ListInv
<1>1. ListInit => ListInv
  BY InitList
<1>2. ListInv /\ [ListNext]_listVars => ListInv'
  BY StepList
<1> QED
  BY <1>1, <1>2, PTL DEF ListSpec

\* What still fits is inserted, and within the cap.
LEMMA Fitting ==
  ASSUME ListInv, NEW v \in Visitor \ crossed, adding[v] # None, InsertNew(v)
  PROVE  /\ Cardinality(listed') \in Nat /\ Cardinality(listed') <= MaxListed
         /\ told'[v] # "error"
<1>1. /\ listed \subseteq adding[v].have /\ adding[v].new \cap listed = {}
      /\ RoomFor(adding[v].have, adding[v].new)
      /\ adding[v].have \subseteq Ticker /\ adding[v].new \subseteq Ticker
  BY DEF ListInv, ListTypeOK, StillFits, Adds
<1>2. listed' = listed \cup adding[v].new /\ told'[v] = "added"
  BY <1>1 DEF InsertNew, ListInv, ListTypeOK
<1>3. IsFiniteSet(adding[v].have) /\ IsFiniteSet(adding[v].new) /\ IsFiniteSet(listed)
      /\ Cardinality(listed) <= Cardinality(adding[v].have)
  BY <1>1, FS_Subset, ListedAssumption
<1>4. Cardinality(listed \cup adding[v].new) <= Cardinality(listed) + Cardinality(adding[v].new)
      /\ Cardinality(listed \cup adding[v].new) \in Nat
  <2>1. Cardinality(listed \cup adding[v].new)
          = Cardinality(listed) + Cardinality(adding[v].new) - Cardinality(listed \cap adding[v].new)
    BY <1>3, FS_Union
  <2>2. IsFiniteSet(listed \cap adding[v].new) /\ IsFiniteSet(listed \cup adding[v].new)
    BY <1>3, FS_Union, FS_Subset
  <2> QED
    BY <1>3, <2>1, <2>2, FS_CardinalityType
<1>5. Cardinality(adding[v].have) \in Nat /\ Cardinality(adding[v].new) \in Nat /\ Cardinality(listed) \in Nat
  BY <1>3, FS_CardinalityType
<1>6. Cardinality(adding[v].have) + Cardinality(adding[v].new) <= MaxListed
  BY <1>1 DEF RoomFor
<1>7. Cardinality(listed') <= MaxListed
  BY <1>2, <1>3, <1>4, <1>5, <1>6, ListedAssumption
<1> QED
  BY <1>2, <1>4, <1>7

\* An insert past the cap, and one that clashes, were crossed by another add
\* (BlocklistStore.add reads before its INSERT opens a transaction).
THEOREM CapCorrect == ListSpec => PastCapOnlyCrossing
<1> DEFINE Crossed == \A v \in Visitor :
       adding[v] # None /\ adding'[v] = None
         /\ (Cardinality(listed') > MaxListed \/ told'[v] = "error") => v \in crossed
<1>1. ListInv /\ [ListNext]_listVars => [Crossed]_listVars
  <2> SUFFICES ASSUME ListInv, ListNext, NEW v \in Visitor, v \notin crossed,
                      adding[v] # None, adding'[v] = None
               PROVE  ~(Cardinality(listed') > MaxListed) /\ told'[v] # "error"
    BY DEF listVars
  <2>1. InsertNew(v)
    <3>1. ASSUME NEW w \in Visitor, NEW typed \in SUBSET Ticker, ReadList(w, typed)
          PROVE  FALSE
      BY <3>1 DEF ReadList, ListInv, ListTypeOK
    <3>2. ASSUME NEW w \in Visitor, InsertNew(w)
          PROVE  w = v
      BY <3>2 DEF InsertNew, ListInv, ListTypeOK
    <3>3. ASSUME NEW w \in Visitor, NEW typed \in SUBSET Ticker
          PROVE  ~RefuseTypo(w, typed)
      BY DEF RefuseTypo
    <3>4. ASSUME NEW w \in Visitor, NEW t \in Ticker
          PROVE  ~RemoveTicker(w, t)
      BY DEF RemoveTicker
    <3> QED
      BY <3>1, <3>2, <3>3, <3>4 DEF ListNext
  <2>2. /\ Cardinality(listed') \in Nat /\ Cardinality(listed') <= MaxListed
        /\ told'[v] # "error"
    BY <2>1, Fitting
  <2> QED
    BY <2>2, ListedAssumption
<1>2. ListSpec => []ListInv
  BY ListInvariant
<1> QED
  BY <1>1, <1>2, PTL DEF ListSpec, PastCapOnlyCrossing

-----------------------------------------------------------------------------
(* The backups *)

\* Of two numbers one is the smaller.
LEMMA BiggerOrSmaller ==
  ASSUME NEW a \in Nat, NEW b \in Nat, a # b, ~(a > b)
  PROVE  a < b
OBVIOUS

\* Runs are finitely many numbers.
LEMMA RunsAreNumbers ==
  /\ Run \subseteq Nat /\ IsFiniteSet(Run)
  /\ \A q, r \in Run : q < r <=> q \in 1 .. r - 1
<1>1. Run \subseteq Nat
  BY DEF Run
<1>2. IsFiniteSet(Run)
  BY FS_Interval, BackupAssumption DEF Run
<1>3. \A q, r \in Run : q < r <=> q \in 1 .. r - 1
  BY DEF Run
<1> QED
  BY <1>1, <1>2, <1>3

\* Where a run can be.
Places == Ended \cup File \cup {"rename", "list", "prune", "sweep"}

\* Folders and runs keep their types.
BackupTypes ==
  /\ source \in SUBSET File
  /\ folder \in [Run -> Folder \cup {None}]
  /\ at \in [Run -> Places]
  /\ doomed \in [Run -> SUBSET Run]
  /\ wanted \in [Run -> SUBSET File] /\ met \subseteq Run

\* Runs start in order, and one that met no other had the place to itself.
Scheduled ==
  /\ \A r, q \in Run : q < r /\ at[r] # "not started" => at[q] # "not started"
  /\ \A r \in Run \ met : at[r] # "not started" => \A q \in Run :
       /\ q < r => at[q] \in Ended
       /\ q > r /\ at[r] \notin Ended => at[q] = "not started"

\* A folder is its run's, and has its final name only after the rename.
Named ==
  \A r \in Run : folder[r] # None =>
    /\ at[r] # "not started"
    /\ folder[r].final => at[r] \notin File \cup {"rename"}

\* The copies made before each step of a run.
Copies == [accounts |-> {}, jobs |-> {"accounts"}, overlay |-> {"accounts", "jobs"},
           rename |-> File]

\* The copies a run has made are in its folder.
Copied ==
  \A r \in Run \ met : at[r] \in File \cup {"rename"} =>
    /\ folder[r] # None /\ wanted[r] = source
    /\ Copies[at[r]] \cap source \subseteq folder[r].files

\* What counts as a backup holds everything.
Whole == \A r \in Newest(Finished) \ met : wanted[r] \subseteq folder[r].files

\* A run removes what is no longer among the newest...
Pruning ==
  \A r \in Run : at[r] = "prune" =>
    \A d \in doomed[r] : d \notin Newest(Finished) /\ at[d] \notin File \cup {"not started", "rename"}

\* ...and then what will never be a backup, unless it runs together with another.
Sweeping ==
  \A r \in Run : at[r] = "sweep" =>
    \A d \in doomed[r] \ met : d \notin Finished /\ at[d] \in {"done", "failed", "died"}

\* The folder of the last run stays, once it has its final name.
LastStays ==
  \A r \in Run \ met :
    at[r] \in {"list", "prune", "sweep", "done"} /\ (\A q \in Run : q > r => at[q] = "not started")
      => r \in Finished

BackupInv == BackupTypes /\ Scheduled /\ Named /\ Copied /\ Whole /\ Pruning /\ Sweeping /\ LastStays

\* What comes after each file.
LEMMA AfterEach ==
  /\ After["accounts"] = "jobs" /\ After["jobs"] = "overlay" /\ After["overlay"] = "rename"
BY DEF After

\* A folder whose files change is one still, under the name it had.
LEMMA FilesChange ==
  ASSUME NEW old \in Folder, NEW files \in SUBSET File
  PROVE  LET new == [old EXCEPT !.files = files]
         IN  new \in Folder /\ new.final = old.final /\ new.files = files
BY DEF Folder

\* What run x does next.
Step(x) ==
  \/ BeginRun(x) \/ Rename(x) \/ GiveUp(x) \/ ListOld(x)
  \/ \E f \in File : CopyNext(x, f)
  \/ \E q \in Run : \/ Scan(x, q) \/ RemoveFolder(x, q) \/ Missing(x, q)
                    \/ \E f \in File : RemoveFile(x, q, f)
  \/ BeginSweep(x) \/ EndRun(x) \/ Die(x)

\* Only run x moves: it begins, or it is under way.
LEMMA OneRunMoves ==
  ASSUME BackupTypes, NEW x \in Run, Step(x)
  PROVE  /\ \A q \in Run : q # x => at'[q] = at[q] /\ wanted'[q] = wanted[q]
         /\ source' = source /\ met \subseteq met' /\ at'[x] # "not started"
         /\ \/ BeginRun(x)
            \/ at[x] \notin Ended /\ met' = met /\ wanted' = wanted
<1> USE DEF BackupTypes, Ended, File
<1>2. CASE BeginRun(x)
  BY <1>2 DEF BeginRun
<1>3. CASE Rename(x) \/ GiveUp(x) \/ ListOld(x) \/ BeginSweep(x) \/ EndRun(x)
  BY <1>3 DEF Rename, GiveUp, ListOld, BeginSweep, EndRun
<1>4. CASE Die(x)
  BY <1>4 DEF Die, UnderWay
<1>5. ASSUME NEW f \in File, CopyNext(x, f)
      PROVE  at[x] \notin Ended /\ at'[x] # "not started" /\ UNCHANGED <<source, met, wanted>>
             /\ \A q \in Run : q # x => at'[q] = at[q]
  <2>1. at[x] = f /\ at' = [at EXCEPT ![x] = After[f]] /\ UNCHANGED <<source, wanted, met>>
    BY <1>5 DEF CopyNext
  <2>2. After[f] # "not started"
    BY AfterEach DEF File
  <2> QED
    BY <2>1, <2>2
<1>6. ASSUME NEW q \in Run, \/ Scan(x, q) \/ RemoveFolder(x, q) \/ Missing(x, q)
                            \/ \E f \in File : RemoveFile(x, q, f)
      PROVE  at[x] \notin Ended /\ at'[x] # "not started" /\ UNCHANGED <<source, met, wanted>>
             /\ \A p \in Run : p # x => at'[p] = at[p]
  BY <1>6 DEF Scan, RemoveFolder, Missing, RemoveFile
<1> QED
  BY <1>2, <1>3, <1>4, <1>5, <1>6 DEF Step

\* A run that met no other is the only one under way.
LEMMA OnlyOne ==
  ASSUME BackupTypes, Scheduled, NEW r \in Run \ met, at[r] \notin Ended,
         NEW q \in Run, at[q] \notin Ended
  PROVE  q = r
<1>1. at[r] # "not started" /\ at[q] # "not started"
  BY DEF Ended
<1>2. ~(q < r) /\ ~(q > r)
  BY <1>1 DEF Scheduled
<1> QED
  BY <1>2, RunsAreNumbers

\* Every step keeps the types: a folder that changes is still one, or is gone.
LEMMA TypesStep ==
  ASSUME BackupTypes, [BackupNext]_backupVars
  PROVE  BackupTypes'
<1> USE DEF BackupTypes
<1>f. \A q \in Run : folder[q] # None =>
        folder[q] \in Folder /\ folder[q].final \in BOOLEAN /\ folder[q].files \in SUBSET File
  BY DEF Folder
<1>g. ASSUME NEW a \in BOOLEAN, NEW b \in SUBSET File
      PROVE  [final |-> a, files |-> b] \in Folder
  BY DEF Folder
<1>p. ASSUME NEW p \in {"not started", "done", "failed", "died", "accounts", "jobs", "overlay",
                        "rename", "list", "prune", "sweep"}
      PROVE  p \in Places
  BY DEF Places, Ended, File
<1>1. ASSUME NEW x \in Run, BeginRun(x)
      PROVE  BackupTypes'
  <2> DEFINE new == [final |-> FALSE, files |-> {}]
  <2>1. new \in Folder /\ source \subseteq File
    BY DEF Folder
  <2> HIDE DEF new
  <2>2. /\ folder' = [folder EXCEPT ![x] = new] /\ at' = [at EXCEPT ![x] = "accounts"]
        /\ wanted' = [wanted EXCEPT ![x] = source] /\ UNCHANGED <<source, doomed>>
        /\ met' = met \/ met' = met \cup UnderWay \cup {x}
    BY <1>1 DEF BeginRun, new
  <2>3. UnderWay \subseteq Run
    BY DEF UnderWay
  <2> QED
    BY <2>1, <2>2, <2>3, <1>p
<1>2. ASSUME NEW x \in Run, Rename(x)
      PROVE  BackupTypes'
  <2> DEFINE new == [final |-> TRUE, files |-> folder[x].files]
  <2>1. folder[x] # None /\ folder' = [folder EXCEPT ![x] = new] /\ at' = [at EXCEPT ![x] = "list"]
        /\ UNCHANGED <<source, doomed, wanted, met>>
    BY <1>2 DEF Rename
  <2>2. folder[x].files \in SUBSET File
    BY <2>1, <1>f
  <2>3. new \in Folder
    BY <2>2, <1>g
  <2> HIDE DEF new
  <2> QED
    BY <2>1, <2>3, <1>p
<1>3. ASSUME NEW x \in Run, GiveUp(x)
      PROVE  BackupTypes'
  BY <1>3, <1>p DEF GiveUp
<1>3a. ASSUME NEW x \in Run, NEW p \in Places, at' = [at EXCEPT ![x] = p],
              UNCHANGED <<source, folder, doomed, wanted, met>>
       PROVE  BackupTypes'
  BY <1>3a
<1>3b. ASSUME NEW x \in Run, EndRun(x)
       PROVE  BackupTypes'
  BY <1>3b, <1>3a, <1>p DEF EndRun
<1>3c. ASSUME NEW x \in Run, Die(x)
       PROVE  BackupTypes'
  BY <1>3c, <1>3a, <1>p DEF Die
<1>4. ASSUME NEW x \in Run, ListOld(x) \/ BeginSweep(x)
      PROVE  BackupTypes'
  <2>1. PICK old \in SUBSET Run, p \in {"prune", "sweep"} :
          /\ at' = [at EXCEPT ![x] = p] /\ doomed' = [doomed EXCEPT ![x] = old]
          /\ UNCHANGED <<source, folder, wanted, met>>
    <3>1. Finished \ Newest(Finished) \in SUBSET Run /\ Partial \in SUBSET Run
      BY DEF Finished, Partial
    <3>2. CASE ListOld(x)
      BY <3>1, <3>2 DEF ListOld
    <3>3. CASE BeginSweep(x)
      BY <3>1, <3>3 DEF BeginSweep
    <3> QED
      BY <1>4, <3>2, <3>3
  <2>2. p \in Places
    BY <2>1, <1>p
  <2> QED
    BY <2>1, <2>2
<1>5. ASSUME NEW x \in Run, NEW f \in File, CopyNext(x, f)
      PROVE  BackupTypes'
  <2>1. After[f] \in Places
    BY DEF After, File, Places
  <2>2. at' \in [Run -> Places] /\ UNCHANGED <<source, doomed, wanted, met>>
    BY <1>5, <2>1 DEF CopyNext
  <2>3. CASE f \in source
    <3> DEFINE new == [folder[x] EXCEPT !.files = @ \cup {f}]
    <3>1. folder[x] # None /\ folder' = [folder EXCEPT ![x] = new]
      BY <1>5, <2>3 DEF CopyNext
    <3>2. new \in Folder
      BY <3>1 DEF Folder
    <3> HIDE DEF new
    <3> QED
      BY <2>2, <3>1, <3>2
  <2>4. CASE f \notin source
    BY <1>5, <2>2, <2>4 DEF CopyNext
  <2> QED
    BY <2>3, <2>4
<1>6. ASSUME NEW x \in Run, NEW q \in Run, Scan(x, q) \/ RemoveFolder(x, q)
      PROVE  BackupTypes'
  <2>1. /\ folder' = folder \/ folder' = [folder EXCEPT ![q] = None]
        /\ doomed' = doomed \/ doomed' = [doomed EXCEPT ![x] = @ \ {q}]
        /\ UNCHANGED <<source, at, wanted, met>>
    BY <1>6 DEF Scan, RemoveFolder
  <2> QED
    BY <2>1
<1>7. ASSUME NEW x \in Run, NEW q \in Run, Missing(x, q)
      PROVE  BackupTypes'
  <2>1. CASE at[x] = "prune"
    BY <1>7, <2>1, <1>3a, <1>p DEF Missing
  <2>2. CASE at[x] # "prune"
    <3>1. /\ doomed' = doomed \/ doomed' = [doomed EXCEPT ![x] = @ \ {q}]
          /\ UNCHANGED <<source, folder, at, wanted, met>>
      BY <1>7, <2>2 DEF Missing
    <3> QED
      BY <3>1
  <2> QED
    BY <2>1, <2>2
<1>8. ASSUME NEW x \in Run, NEW q \in Run, NEW f \in File, RemoveFile(x, q, f)
      PROVE  BackupTypes'
  <2> DEFINE new == [folder[q] EXCEPT !.files = @ \ {f}]
  <2>1. folder[q] # None /\ folder' = [folder EXCEPT ![q] = new]
        /\ UNCHANGED <<source, at, doomed, wanted, met>>
    BY <1>8 DEF RemoveFile
  <2>2. new \in Folder
    BY <2>1 DEF Folder
  <2> HIDE DEF new
  <2> QED
    BY <2>1, <2>2
<1>9. CASE UNCHANGED backupVars
  BY <1>9 DEF backupVars
<1> HIDE DEF BackupTypes
<1> QED
  BY <1>1, <1>2, <1>3, <1>3b, <1>3c, <1>4, <1>5, <1>6, <1>7, <1>8, <1>9 DEF BackupNext

\* A run that begins alone meets no other until it ends, and a later one begins.
LEMMA ScheduledStep ==
  ASSUME BackupTypes, Scheduled, [BackupNext]_backupVars
  PROVE  Scheduled'
<1>1. CASE UNCHANGED backupVars
  BY <1>1 DEF backupVars, Scheduled
<1>2. CASE BackupNext
  <2>1. PICK x \in Run :
          /\ \A q \in Run : q # x => at'[q] = at[q]
          /\ \/ BeginRun(x)
             \/ at[x] \notin Ended /\ at'[x] # "not started" /\ met' = met
    <3>1. PICK x \in Run : Step(x)
      BY <1>2 DEF BackupNext, Step
    <3> QED
      BY <3>1, OneRunMoves
  <2>2. CASE at[x] \notin Ended /\ at'[x] # "not started" /\ met' = met
    <3>1. at[x] # "not started"
      BY <2>2 DEF Ended
    <3>2. \A q \in Run : at'[q] = "not started" <=> at[q] = "not started"
      BY <2>1, <2>2, <3>1
    <3>3. \A q \in Run : at[q] \in Ended => at'[q] = at[q]
      BY <2>1, <2>2
    <3>4. \A q \in Run : at'[q] \notin Ended => at[q] \notin Ended
      BY <3>3
    <3>5. \A r, q \in Run : q < r /\ at'[r] # "not started" => at'[q] # "not started"
      BY <3>2 DEF Scheduled
    <3>6. ASSUME NEW r \in Run \ met, at'[r] # "not started", NEW q \in Run
          PROVE  /\ q < r => at'[q] \in Ended
                 /\ q > r /\ at'[r] \notin Ended => at'[q] = "not started"
      BY <3>2, <3>3, <3>4, <3>6 DEF Scheduled
    <3> QED
      BY <2>2, <3>5, <3>6 DEF Scheduled
  <2>3. CASE BeginRun(x)
    <3>1. /\ at[x] = "not started" /\ at' = [at EXCEPT ![x] = "accounts"]
          /\ \A q \in Run : q < x => at[q] # "not started"
          /\ met' = IF UnderWay = {} THEN met ELSE met \cup UnderWay \cup {x}
      BY <2>3, RunsAreNumbers DEF BeginRun
    <3>2. /\ at'[x] = "accounts" /\ "accounts" \notin Ended
          /\ \A q \in Run : q # x => at'[q] = at[q]
      BY <3>1 DEF BackupTypes, Ended
    <3>3. \A q \in Run : q > x => at[q] = "not started"
      BY <3>1 DEF Scheduled
    <3>4. \A r, q \in Run : q < r /\ at'[r] # "not started" => at'[q] # "not started"
      <4> TAKE r, q \in Run
      <4>1. CASE r = x
        BY <3>1, <3>2, <4>1
      <4>2. CASE r # x
        BY <3>2, <4>2 DEF Scheduled
      <4> QED
        BY <4>1, <4>2
    <3>5. ASSUME NEW r \in Run \ met', at'[r] # "not started", NEW q \in Run
          PROVE  /\ q < r => at'[q] \in Ended
                 /\ q > r /\ at'[r] \notin Ended => at'[q] = "not started"
      <4>1. CASE r = x
        <5>1. UnderWay = {}
          BY <3>1, <3>5, <4>1
        <5>2. \A p \in Run : at[p] \in Ended
          BY <5>1 DEF UnderWay
        <5>3. ~(q < r) \/ q # x
          BY <4>1, RunsAreNumbers
        <5> QED
          BY <3>2, <3>3, <4>1, <5>2, <5>3, RunsAreNumbers
      <4>2. CASE r # x
        <5>1. r \notin met /\ at[r] # "not started" /\ r < x
          <6>1. r \in Run /\ r \notin met /\ at[r] # "not started"
            <7>1. met \subseteq met'
              BY <3>1
            <7> QED
              BY <7>1, <3>2, <3>5, <4>2
          <6>2. ~(r > x)
            BY <3>3, <6>1
          <6>3. r \in Nat /\ x \in Nat
            BY <6>1, RunsAreNumbers
          <6>4. r < x
            BY <4>2, <6>2, <6>3
          <6> QED
            BY <6>1, <6>4
        <5>2. q < r => at[q] \in Ended /\ q # x
          <6>1. r \in Run /\ (q < r => at[q] \in Ended)
            BY <5>1 DEF Scheduled
          <6>2. r \in Nat /\ x \in Nat /\ q \in Nat
            BY <6>1, RunsAreNumbers
          <6>3. r < x
            BY <5>1
          <6>4. q < r => q # x
            BY <6>2, <6>3
          <6> QED
            BY <6>1, <6>4
        <5>3. at[r] \in Ended
          BY <3>1, <3>5 DEF UnderWay
        <5> QED
          BY <3>2, <4>2, <5>2, <5>3
      <4> QED
        BY <4>1, <4>2
    <3> QED
      BY <3>4, <3>5 DEF Scheduled
  <2> QED
    BY <2>1, <2>2, <2>3
<1> QED
  BY <1>1, <1>2

\* One more run among those finished pushes none of the others up...
LEMMA NewestOfMore ==
  ASSUME NEW S \in SUBSET Run, NEW x \in Run
  PROVE  Newest(S \cup {x}) \subseteq Newest(S) \cup {x}
<1> SUFFICES ASSUME NEW d \in Newest(S \cup {x}), d # x
             PROVE  d \in Newest(S)
  OBVIOUS
<1> DEFINE newer == {q \in S : q > d}
           newer2 == {q \in S \cup {x} : q > d}
<1>1. d \in S /\ Cardinality(newer2) < Keep
  BY DEF Newest
<1>2. IsFiniteSet(S) /\ IsFiniteSet(S \cup {x})
  <2>1. S \subseteq Run /\ S \cup {x} \subseteq Run /\ IsFiniteSet(Run)
    BY RunsAreNumbers
  <2> QED
    BY <2>1, FS_Subset
<1>3. newer \subseteq newer2 /\ newer2 \subseteq S \cup {x}
  OBVIOUS
<1> HIDE DEF newer, newer2
<1>4. IsFiniteSet(newer2) /\ IsFiniteSet(newer) /\ Cardinality(newer) <= Cardinality(newer2)
  BY <1>2, <1>3, FS_Subset
<1>5. Cardinality(newer) \in Nat /\ Cardinality(newer2) \in Nat /\ Keep \in Nat
  BY <1>4, FS_CardinalityType, BackupAssumption
<1>6. Cardinality(newer) < Keep
  BY <1>1, <1>4, <1>5
<1> QED
  BY <1>1, <1>6 DEF Newest, newer

\* ...and one that is not among the newest can go without making room for another.
LEMMA NewestOfFewer ==
  ASSUME NEW S \in SUBSET Run, NEW p \in S \ Newest(S)
  PROVE  Newest(S \ {p}) \subseteq Newest(S)
<1> SUFFICES ASSUME NEW d \in Newest(S \ {p}), d \notin Newest(S)
             PROVE  FALSE
  OBVIOUS
<1> DEFINE newer == {q \in S : q > d}
           newer2 == {q \in S \ {p} : q > d}
           newerP == {q \in S : q > p}
<1>1. /\ d \in S /\ d # p /\ d \in Nat /\ p \in Nat /\ S \subseteq Nat
      /\ Cardinality(newer2) < Keep /\ ~(Cardinality(newer) < Keep) /\ ~(Cardinality(newerP) < Keep)
  BY RunsAreNumbers DEF Newest
<1>2. CASE p < d
  <2>1. newer2 = newer
    BY <1>1, <1>2
  <2> QED
    BY <1>1, <2>1
<1>3. CASE d < p
  <2>1. newerP \subseteq newer2
    <3> SUFFICES ASSUME NEW q \in S, q > p
                 PROVE  q # p /\ q > d
      OBVIOUS
    <3>1. q \in Nat
      BY <1>1
    <3> QED
      BY <1>1, <1>3, <3>1
  <2>2. IsFiniteSet(S) /\ newer2 \subseteq S
    BY RunsAreNumbers, FS_Subset
  <2> HIDE DEF newerP, newer2
  <2>3. IsFiniteSet(newer2) /\ IsFiniteSet(newerP) /\ Cardinality(newerP) <= Cardinality(newer2)
    BY <2>1, <2>2, FS_Subset
  <2>4. Cardinality(newerP) \in Nat /\ Cardinality(newer2) \in Nat /\ Keep \in Nat
    BY <2>3, FS_CardinalityType, BackupAssumption
  <2> QED
    BY <1>1, <2>3, <2>4
<1> QED
  BY <1>1, <1>2, <1>3

\* Keep is at least one: the last of those finished is among the newest.
LEMMA LastIsNewest ==
  ASSUME NEW S \in SUBSET Run, NEW r \in S, \A q \in S : ~(q > r)
  PROVE  r \in Newest(S)
<1>1. {q \in S : q > r} = {}
  OBVIOUS
<1>2. Cardinality({q \in S : q > r}) = 0
  BY <1>1, FS_EmptySet
<1> QED
  BY <1>2, BackupAssumption DEF Newest

\* A run touches its own folder until it is renamed, then only what it removes:
\* and it takes away the folder itself only under the name it expects.
LEMMA Touched ==
  ASSUME BackupTypes, NEW x \in Run, Step(x), NEW d \in Run, folder'[d] # folder[d]
  PROVE  /\ \A e \in Run \ {d} : folder'[e] = folder[e]
         /\ \/ d = x /\ at[x] \in {"not started", "rename"} \cup File
            \/ /\ d \in doomed[x] /\ at[x] \in {"prune", "sweep"} /\ at' = at /\ folder[d] # None
               /\ folder'[d] # None => folder'[d].final = folder[d].final
               /\ folder'[d] = None => folder[d].final = (at[x] = "prune")
<1> USE DEF BackupTypes
<1>1. CASE BeginRun(x) \/ Rename(x) \/ GiveUp(x)
  BY <1>1 DEF BeginRun, Rename, GiveUp
<1>2. CASE ListOld(x) \/ BeginSweep(x) \/ EndRun(x) \/ Die(x)
  BY <1>2 DEF ListOld, BeginSweep, EndRun, Die
<1>3. ASSUME NEW f \in File, CopyNext(x, f)
      PROVE  d = x /\ at[x] \in File /\ \A e \in Run \ {d} : folder'[e] = folder[e]
  BY <1>3 DEF CopyNext
<1>4. ASSUME NEW q \in Run, Scan(x, q) \/ Missing(x, q)
      PROVE  FALSE
  BY <1>4 DEF Scan, Missing
<1>5. ASSUME NEW q \in Run, RemoveFolder(x, q)
      PROVE  /\ d \in doomed[x] /\ at[x] \in {"prune", "sweep"} /\ at' = at /\ folder[d] # None
             /\ folder'[d] = None /\ folder[d].final = (at[x] = "prune")
             /\ \A e \in Run \ {d} : folder'[e] = folder[e]
  BY <1>5 DEF RemoveFolder, FirstDoomed
<1>6. ASSUME NEW q \in Run, NEW f \in File, RemoveFile(x, q, f)
      PROVE  /\ d \in doomed[x] /\ at[x] \in {"prune", "sweep"} /\ at' = at /\ folder[d] # None
             /\ folder'[d] # None /\ folder'[d].final = folder[d].final
             /\ \A e \in Run \ {d} : folder'[e] = folder[e]
  <2> DEFINE new == [folder[q] EXCEPT !.files = @ \ {f}]
  <2>1. /\ q \in doomed[x] /\ at[x] \in {"prune", "sweep"} /\ at' = at /\ folder[q] # None
        /\ folder' = [folder EXCEPT ![q] = new]
    BY <1>6 DEF RemoveFile, FirstDoomed
  <2>2. new \in Folder /\ new.final = folder[q].final
    BY <2>1 DEF Folder
  <2> HIDE DEF new
  <2> QED
    BY <2>1, <2>2, NoFolderAssumption
<1> QED
  BY <1>1, <1>2, <1>3, <1>4, <1>5, <1>6 DEF Step

\* Only a rename gives a folder its final name.
LEMMA NamedStep ==
  ASSUME BackupTypes, Named, NEW x \in Run, Step(x)
  PROVE  Named'
<1> USE DEF BackupTypes, Named
<1>1. CASE BeginRun(x)
  BY <1>1 DEF BeginRun, File
<1>2. CASE Rename(x)
  BY <1>2 DEF Rename, File
<1>3. CASE GiveUp(x)
  BY <1>3 DEF GiveUp, File
<1>4. ASSUME NEW p \in {"prune", "sweep", "done", "died", "failed"}, at[x] # "not started",
             folder' = folder, at' = [at EXCEPT ![x] = p]
      PROVE  Named'
  BY <1>4 DEF File
<1>4a. CASE ListOld(x) \/ BeginSweep(x) \/ EndRun(x) \/ Die(x)
  <2>1. \E p \in {"prune", "sweep", "done", "died"} : at' = [at EXCEPT ![x] = p]
    BY <1>4a DEF ListOld, BeginSweep, EndRun, Die
  <2>2. folder' = folder /\ at[x] # "not started"
    BY <1>4a DEF ListOld, BeginSweep, EndRun, Die, UnderWay, Ended
  <2> QED
    BY <2>1, <2>2, <1>4
<1>5. ASSUME NEW f \in File, CopyNext(x, f)
      PROVE  Named'
  <2>1. /\ at[x] \in File /\ at' = [at EXCEPT ![x] = After[f]]
        /\ After[f] # "not started"
    BY <1>5, AfterEach DEF CopyNext, File
  <2>2. at[x] # "not started"
    BY <2>1 DEF File
  <2>3. \A d \in Run \ {x} : folder'[d] = folder[d] /\ at'[d] = at[d]
    BY <1>5 DEF CopyNext
  <2>4. folder'[x] # None => ~folder'[x].final
    <3>1. CASE f \in source
      <4> DEFINE new == [folder[x] EXCEPT !.files = folder[x].files \cup {f}]
      <4>1. folder[x] # None /\ folder' = [folder EXCEPT ![x] = new]
        BY <1>5, <3>1 DEF CopyNext
      <4>5. folder[x] \in Folder /\ folder[x].files \cup {f} \in SUBSET File
        BY <4>1 DEF Folder
      <4>2. new.final = folder[x].final
        BY <4>5, FilesChange
      <4>3. folder'[x] = new /\ ~folder[x].final
        BY <2>1, <4>1
      <4> HIDE DEF new
      <4> QED
        BY <4>2, <4>3
    <3>2. CASE f \notin source
      BY <1>5, <2>1, <3>2 DEF CopyNext
    <3> QED
      BY <3>1, <3>2
  <2> QED
    BY <2>1, <2>2, <2>3, <2>4
<1>6. ASSUME NEW q \in Run, \/ Scan(x, q) \/ RemoveFolder(x, q) \/ Missing(x, q)
                            \/ \E f \in File : RemoveFile(x, q, f)
      PROVE  Named'
  <2>1. /\ at' = at \/ at' = [at EXCEPT ![x] = "failed"]
        /\ at[x] \in {"prune", "sweep"}
    BY <1>6 DEF Scan, RemoveFolder, Missing, RemoveFile
  <2>2. \A d \in Run : folder'[d] # None => folder[d] # None /\ folder'[d].final = folder[d].final
    <3> SUFFICES ASSUME NEW d \in Run, folder'[d] # None, folder'[d] # folder[d]
                 PROVE  folder[d] # None /\ folder'[d].final = folder[d].final
      OBVIOUS
    <3>1. ~(d = x /\ at[x] \in {"not started", "rename"} \cup File)
      BY <2>1 DEF File
    <3> HIDE DEF BackupTypes, Named
    <3> QED
      BY <3>1, Touched
  <2>3. ASSUME NEW d \in Run
        PROVE  at'[d] = at[d] \/ (at'[d] = "failed" /\ at[d] \in {"prune", "sweep"})
    BY <2>1
  <2> QED
    BY <2>2, <2>3 DEF File
<1> HIDE DEF BackupTypes, Named
<1> QED
  BY <1>1, <1>2, <1>3, <1>4a, <1>5, <1>6 DEF Step

\* Where a run is before its backup counts.
Early == File \cup {"not started", "rename"}

\* A run past the rename never is early again, and gets past it by renaming only;
\* it removes only what it listed, once.
LEMMA Onward ==
  ASSUME BackupTypes, NEW x \in Run, Step(x)
  PROVE  /\ at[x] \notin Early => at'[x] \notin Early /\ at[x] \in {"list", "prune", "sweep"}
         /\ at[x] \in Early => Rename(x) \/ at'[x] \in Early \cup {"failed", "died"}
         /\ \A r \in Run :
              \/ r = x /\ (ListOld(x) \/ BeginSweep(x))
              \/ doomed'[r] \subseteq doomed[r] /\ (at'[r] \in {"prune", "sweep"} => at'[r] = at[r])
<1> USE DEF BackupTypes
<1>1. CASE BeginRun(x)
  BY <1>1 DEF BeginRun, Early, File
<1>2. CASE Rename(x)
  BY <1>2 DEF Rename, Early, File
<1>3. CASE GiveUp(x)
  BY <1>3 DEF GiveUp, Early, File
<1>4. CASE ListOld(x) \/ BeginSweep(x)
  BY <1>4 DEF ListOld, BeginSweep, Early, File
<1>5. CASE EndRun(x)
  BY <1>5 DEF EndRun, Early, File
<1>6. CASE Die(x)
  <2>1. /\ at' = [at EXCEPT ![x] = "died"] /\ doomed' = doomed
        /\ at[x] \in Places \ Ended
    BY <1>6 DEF Die, UnderWay
  <2> QED
    BY <2>1 DEF Early, File, Places, Ended
<1>7. ASSUME NEW f \in File, CopyNext(x, f)
      PROVE  /\ at[x] \in Early /\ at'[x] \in Early /\ doomed' = doomed
             /\ \A r \in Run : at'[r] \in {"prune", "sweep"} => at'[r] = at[r]
  <2>1. at[x] = f /\ at' = [at EXCEPT ![x] = After[f]] /\ doomed' = doomed
    BY <1>7 DEF CopyNext
  <2>2. After[f] \in {"jobs", "overlay", "rename"}
    BY AfterEach DEF File
  <2> QED
    BY <2>1, <2>2 DEF Early, File
<1>8. ASSUME NEW q \in Run, \/ Scan(x, q) \/ RemoveFolder(x, q) \/ Missing(x, q)
                            \/ \E f \in File : RemoveFile(x, q, f)
      PROVE  /\ at[x] \in {"prune", "sweep"} /\ at'[x] \notin Early
             /\ \A r \in Run : doomed'[r] \subseteq doomed[r]
             /\ \A r \in Run : at'[r] \in {"prune", "sweep"} => at'[r] = at[r]
  <2>1. /\ at[x] \in {"prune", "sweep"} /\ (at' = at \/ at' = [at EXCEPT ![x] = "failed"])
        /\ doomed' = doomed \/ doomed' = [doomed EXCEPT ![x] = @ \ {q}]
    BY <1>8 DEF Scan, RemoveFolder, Missing, RemoveFile
  <2>2. \A r \in Run : doomed'[r] \subseteq doomed[r]
    BY <2>1
  <2>3. ASSUME NEW r \in Run
        PROVE  at'[r] = at[r] \/ at'[r] = "failed"
    BY <2>1
  <2>4. at'[x] \notin Early
    BY <2>1, <2>3 DEF Early, File
  <2>5. ASSUME NEW r \in Run, at'[r] \in {"prune", "sweep"}
        PROVE  at'[r] = at[r]
    BY <2>3, <2>5
  <2>6. at[x] \in {"prune", "sweep"}
    BY <2>1
  <2> HIDE DEF BackupTypes
  <2> QED
    BY <2>2, <2>4, <2>5, <2>6
<1>9. "prune" \notin Early /\ "sweep" \notin Early
  BY DEF Early, File
<1> HIDE DEF BackupTypes
<1>10. CASE \E f \in File : CopyNext(x, f)
  BY <1>7, <1>10
<1>11. CASE \E q \in Run : \/ Scan(x, q) \/ RemoveFolder(x, q) \/ Missing(x, q)
                           \/ \E f \in File : RemoveFile(x, q, f)
  BY <1>8, <1>9, <1>11
<1> QED
  BY <1>1, <1>2, <1>3, <1>4, <1>5, <1>6, <1>10, <1>11 DEF Step

\* A run that fails early removes its folder; one that dies leaves it as it is.
LEMMA FailsEmpty ==
  ASSUME BackupTypes, NEW x \in Run, Step(x), at[x] \in Early,
         at'[x] \in {"failed", "died"}, folder'[x] # folder[x]
  PROVE  folder'[x] = None
<1> USE DEF BackupTypes
<1>1. CASE GiveUp(x)
  BY <1>1 DEF GiveUp
<1>2. CASE ListOld(x) \/ BeginSweep(x) \/ EndRun(x) \/ Die(x)
  BY <1>2 DEF ListOld, BeginSweep, EndRun, Die
<1>3. CASE BeginRun(x) \/ Rename(x)
  BY <1>3 DEF BeginRun, Rename
<1>4. ASSUME NEW f \in File, CopyNext(x, f)
      PROVE  FALSE
  <2>1. at' = [at EXCEPT ![x] = After[f]]
    BY <1>4 DEF CopyNext
  <2> QED
    BY <2>1, AfterEach DEF File
<1>5. ASSUME NEW q \in Run, \/ Scan(x, q) \/ RemoveFolder(x, q) \/ Missing(x, q)
                            \/ \E f \in File : RemoveFile(x, q, f)
      PROVE  FALSE
  <2>1. at[x] \in {"prune", "sweep"}
    BY <1>5 DEF Scan, RemoveFolder, Missing, RemoveFile
  <2> QED
    BY <2>1 DEF Early, File
<1> HIDE DEF BackupTypes
<1> QED
  BY <1>1, <1>2, <1>3, <1>4, <1>5 DEF Step

\* A rename finishes a backup.
LEMMA RenameFinishes ==
  ASSUME BackupTypes, NEW x \in Run, Rename(x)
  PROVE  Finished' = Finished \cup {x}
<1>1. /\ folder' = [folder EXCEPT ![x] = [final |-> TRUE, files |-> folder[x].files]]
      /\ folder[x] \in Folder
  BY DEF Rename, BackupTypes
<1>2. folder[x].files \in SUBSET File
  BY <1>1 DEF Folder
<1>3. folder'[x] \in Folder /\ folder'[x].final
  BY <1>1, <1>2 DEF BackupTypes, Folder
<1>4. \A d \in Run \ {x} : folder'[d] = folder[d]
  BY <1>1 DEF BackupTypes
<1>5. Finished' = Finished \cup {x}
  BY <1>3, <1>4, NoFolderAssumption DEF Finished
<1> QED
  BY <1>5

\* A rename finishes one backup, and only pruning takes one away: not one of the newest.
LEMMA FinishedMoves ==
  ASSUME BackupTypes, Named, Pruning, NEW x \in Run, Step(x)
  PROVE  \/ Rename(x) /\ Finished' = Finished \cup {x}
         \/ Finished' = Finished
         \/ \E p \in Finished \cap doomed[x] :
              at[x] = "prune" /\ p \notin Newest(Finished) /\ Finished' = Finished \ {p}
<1>1. CASE Rename(x)
  BY <1>1, RenameFinishes
<1>2. CASE ~Rename(x)
  <2>1. CASE \A d \in Run : folder'[d] = folder[d]
    BY <2>1 DEF Finished
  <2>2. ASSUME NEW d \in Run, folder'[d] # folder[d]
        PROVE  \/ Finished' = Finished
               \/ \E p \in Finished \cap doomed[x] :
                    at[x] = "prune" /\ p \notin Newest(Finished) /\ Finished' = Finished \ {p}
    <3>0. \A e \in Run \ {d} : folder'[e] = folder[e]
      BY <2>2, Touched
    <3>1. CASE d = x /\ at[x] \in Early
      <4>1. d \notin Finished
        BY <3>1 DEF Named, Finished, Early
      <4>2. d \notin Finished'
        <5>1. at'[d] \in Early \cup {"failed", "died"}
          BY <1>2, <3>1, Onward
        <5>2. Named' /\ at'[d] # "not started"
          BY <3>1, NamedStep, OneRunMoves
        <5>3. CASE at'[d] \in Early
          BY <5>2, <5>3 DEF Named, Finished, Early
        <5>4. CASE at'[d] \in {"failed", "died"}
          <6>1. folder'[d] = None
            BY <2>2, <3>1, <5>4, FailsEmpty
          <6> QED
            BY <6>1 DEF Finished
        <5> QED
          BY <5>1, <5>3, <5>4
      <4> QED
        BY <3>0, <4>1, <4>2 DEF Finished
    <3>2. CASE ~(d = x /\ at[x] \in Early)
      <4>1. /\ d \in doomed[x] /\ at[x] \in {"prune", "sweep"} /\ folder[d] # None
            /\ folder'[d] # None => folder'[d].final = folder[d].final
            /\ folder'[d] = None => folder[d].final = (at[x] = "prune")
        <5>1. ~(d = x /\ at[x] \in {"not started", "rename"} \cup File)
          BY <3>2 DEF Early
        <5> QED
          BY <2>2, <5>1, Touched
      <4>2. CASE folder'[d] # None
        BY <3>0, <4>1, <4>2 DEF Finished
      <4>3. CASE folder'[d] = None /\ at[x] = "prune"
        <5>1. d \notin Newest(Finished) /\ d \in Finished
          BY <4>1, <4>3 DEF Pruning, Finished
        <5>2. Finished' = Finished \ {d}
          BY <3>0, <4>3 DEF Finished
        <5> QED
          BY <4>1, <4>3, <5>1, <5>2
      <4>4. CASE folder'[d] = None /\ at[x] # "prune"
        BY <3>0, <4>1, <4>4 DEF Finished
      <4> QED
        BY <4>2, <4>3, <4>4
    <3> QED
      BY <3>1, <3>2
  <2> QED
    BY <2>1, <2>2
<1> QED
  BY <1>1, <1>2

\* A copy goes into the run's folder, where nothing else happens to it.
LEMMA CopiedStep ==
  ASSUME BackupTypes, Scheduled, Copied, NEW x \in Run, Step(x)
  PROVE  Copied'
<1> SUFFICES ASSUME NEW r \in Run \ met', at'[r] \in File \cup {"rename"}
             PROVE  /\ folder'[r] # None /\ wanted'[r] = source'
                    /\ Copies[at'[r]] \cap source' \subseteq folder'[r].files
  BY DEF Copied
<1>0. /\ r \in Run \ met /\ source' = source
      /\ \A q \in Run : q # x => at'[q] = at[q] /\ wanted'[q] = wanted[q]
  BY OneRunMoves
<1>1. CASE BeginRun(x) /\ r = x
  <2>1. /\ folder' = [folder EXCEPT ![x] = [final |-> FALSE, files |-> {}]]
        /\ at' = [at EXCEPT ![x] = "accounts"] /\ wanted' = [wanted EXCEPT ![x] = source]
    BY <1>1 DEF BeginRun
  <2>2. /\ folder'[x] = [final |-> FALSE, files |-> {}] /\ at'[x] = "accounts"
        /\ wanted'[x] = source /\ folder'[x] \in Folder
    BY <2>1 DEF BackupTypes, Folder
  <2>3. Copies["accounts"] = {}
    BY DEF Copies
  <2> QED
    BY <1>0, <1>1, <2>2, <2>3, NoFolderAssumption
<1>2. CASE r # x
  <2>1. /\ folder[r] # None /\ wanted[r] = source /\ at'[r] = at[r] /\ wanted'[r] = wanted[r]
        /\ Copies[at[r]] \cap source \subseteq folder[r].files
    BY <1>0, <1>2 DEF Copied
  <2>2. at[r] \notin Ended
    BY <2>1 DEF Ended, File
  <2>3. BeginRun(x) \/ at[x] \notin Ended
    BY OneRunMoves
  <2>4. CASE at[x] \notin Ended
    BY <1>0, <1>2, <2>2, <2>4, OnlyOne
  <2>5. CASE BeginRun(x)
    <3>1. folder'[r] = folder[r]
      BY <1>2, <2>5 DEF BeginRun, BackupTypes
    <3> QED
      BY <1>0, <2>1, <3>1
  <2> QED
    BY <2>3, <2>4, <2>5
<1>3. CASE ~BeginRun(x) /\ r = x
  <2>1. PICK f \in File : CopyNext(x, f)
    <3>1. at'[x] \in Early /\ at'[x] # "not started"
      BY <1>3, OneRunMoves DEF Early
    <3>2. ~Rename(x) /\ ~GiveUp(x) /\ ~ListOld(x) /\ ~BeginSweep(x) /\ ~EndRun(x) /\ ~Die(x)
      <4>1. Rename(x) \/ GiveUp(x) \/ ListOld(x) \/ BeginSweep(x) \/ EndRun(x) \/ Die(x)
              => at'[x] \in {"list", "failed", "prune", "sweep", "done", "died"}
        BY DEF BackupTypes, Rename, GiveUp, ListOld, BeginSweep, EndRun, Die
      <4> QED
        BY <3>1, <4>1 DEF Early, File
    <3>3. ASSUME NEW q \in Run, \/ Scan(x, q) \/ RemoveFolder(x, q) \/ Missing(x, q)
                                \/ \E f \in File : RemoveFile(x, q, f)
          PROVE  FALSE
      <4>1. at[x] \in {"prune", "sweep"}
        BY <3>3 DEF Scan, RemoveFolder, Missing, RemoveFile
      <4>2. at[x] \notin Early
        BY <4>1 DEF Early, File
      <4> QED
        BY <3>1, <4>2, Onward
    <3> QED
      BY <1>3, <3>2, <3>3 DEF Step
  <2>2. /\ at[x] = f /\ at' = [at EXCEPT ![x] = After[f]] /\ wanted' = wanted
        /\ f \in source => folder[x] # None
        /\ folder' = IF f \notin source THEN folder
                     ELSE [folder EXCEPT ![x] = [folder[x] EXCEPT !.files = folder[x].files \cup {f}]]
    BY <2>1 DEF CopyNext
  <2>3. /\ folder[x] # None /\ wanted[x] = source
        /\ Copies[f] \cap source \subseteq folder[x].files
    BY <1>0, <1>3, <2>2 DEF Copied
  <2>4. folder[x] \in Folder /\ folder[x].files \cup {f} \in SUBSET File
    BY <2>3 DEF BackupTypes, Folder
  <2>5. at'[x] = After[f] /\ Copies[After[f]] = Copies[f] \cup {f}
    <3>1. at'[x] = After[f]
      BY <2>2 DEF BackupTypes
    <3>2. /\ Copies["accounts"] = {} /\ Copies["jobs"] = {"accounts"}
          /\ Copies["overlay"] = {"accounts", "jobs"} /\ Copies["rename"] = File
      BY DEF Copies
    <3> QED
      BY <3>1, <3>2, AfterEach DEF File
  <2>6. folder'[x] # None /\ folder[x].files \subseteq folder'[x].files
        /\ (f \in source => f \in folder'[x].files)
    <3>1. CASE f \in source
      <4> DEFINE new == [folder[x] EXCEPT !.files = folder[x].files \cup {f}]
      <4>1. new \in Folder /\ new.files = folder[x].files \cup {f}
        BY <2>4, FilesChange
      <4>2. folder' = [folder EXCEPT ![x] = new]
        BY <2>2, <3>1
      <4> HIDE DEF new
      <4> QED
        BY <4>1, <4>2, NoFolderAssumption DEF BackupTypes
    <3>2. CASE f \notin source
      BY <2>2, <2>3, <3>2
    <3> QED
      BY <3>1, <3>2
  <2> QED
    BY <1>0, <1>3, <2>2, <2>3, <2>5, <2>6
<1> QED
  BY <1>1, <1>2, <1>3

\* A backup is whole when it is renamed, and nothing is removed from it while it counts.
LEMMA WholeStep ==
  ASSUME BackupInv, NEW x \in Run, Step(x)
  PROVE  Whole'
<1> USE DEF BackupInv
<1>0. /\ met \subseteq met'
      /\ \A q \in Run : q # x => at'[q] = at[q] /\ wanted'[q] = wanted[q]
      /\ BeginRun(x) \/ wanted' = wanted
  BY OneRunMoves
<1>1. ASSUME NEW d \in Newest(Finished), d \notin met
      PROVE  wanted'[d] = wanted[d] /\ folder'[d] = folder[d]
  <2>1. d \in Run /\ d \in Finished /\ at[d] \notin Early
    BY DEF Newest, Finished, Named, Early
  <2>2. wanted'[d] = wanted[d]
    <3>1. BeginRun(x) => d # x
      BY <2>1 DEF BeginRun, Early
    <3> QED
      BY <1>0, <2>1, <3>1
  <2>3. ASSUME folder'[d] # folder[d]
        PROVE  FALSE
    <3>1. d \in doomed[x] /\ at[x] \in {"prune", "sweep"}
      BY <2>1, <2>3, Touched DEF Early
    <3>2. CASE at[x] = "prune"
      BY <1>1, <3>1, <3>2 DEF Pruning
    <3>3. CASE at[x] = "sweep"
      BY <1>1, <2>1, <3>1, <3>3 DEF Sweeping
    <3> QED
      BY <3>1, <3>2, <3>3
  <2> QED
    BY <2>2, <2>3
<1>2. ASSUME Rename(x), x \notin met
      PROVE  wanted'[x] \subseteq folder'[x].files
  <2>1. /\ at[x] = "rename" /\ wanted' = wanted
        /\ folder' = [folder EXCEPT ![x] = [final |-> TRUE, files |-> folder[x].files]]
    BY <1>2 DEF Rename
  <2>2. /\ folder[x] # None /\ wanted[x] = source
        /\ Copies["rename"] \cap source \subseteq folder[x].files
    BY <1>2, <2>1 DEF Copied
  <2>3. Copies["rename"] = File /\ source \subseteq File
    BY DEF Copies, BackupTypes
  <2>4. folder'[x].files = folder[x].files
    BY <2>1 DEF BackupTypes
  <2> QED
    BY <2>1, <2>2, <2>3, <2>4
<1>3. Finished \subseteq Run
  BY DEF Finished
<1>4. CASE Rename(x) /\ Finished' = Finished \cup {x}
  <2>1. Newest(Finished') \subseteq Newest(Finished) \cup {x}
    BY <1>3, <1>4, NewestOfMore
  <2> QED
    BY <1>0, <1>1, <1>2, <1>4, <2>1 DEF Whole
<1>5. CASE Finished' = Finished
  BY <1>0, <1>1, <1>5 DEF Whole
<1>6. ASSUME NEW p \in Finished, p \notin Newest(Finished), Finished' = Finished \ {p}
      PROVE  Whole'
  <2>1. Newest(Finished') \subseteq Newest(Finished)
    BY <1>3, <1>6, NewestOfFewer
  <2> QED
    BY <1>0, <1>1, <2>1 DEF Whole
<1> QED
  BY <1>4, <1>5, <1>6, FinishedMoves

\* What a pruner has listed stays among the old ones.
LEMMA PruningStep ==
  ASSUME BackupInv, NEW x \in Run, Step(x)
  PROVE  Pruning'
<1> USE DEF BackupInv
<1> SUFFICES ASSUME NEW r \in Run, at'[r] = "prune", NEW d \in doomed'[r]
             PROVE  d \notin Newest(Finished') /\ at'[d] \notin Early
  BY DEF Pruning, Early
<1>1. CASE ListOld(x) /\ r = x
  <2>1. /\ doomed' = [doomed EXCEPT ![x] = Finished \ Newest(Finished)]
        /\ folder' = folder /\ at' = [at EXCEPT ![x] = "prune"]
    BY <1>1 DEF ListOld
  <2>2. d \in Finished \ Newest(Finished) /\ Finished' = Finished
    BY <1>1, <2>1 DEF BackupTypes, Finished
  <2>3. d \in Run /\ at[d] \notin Early
    BY <2>2 DEF Finished, Named, Early
  <2>4. at'[d] = at[d] \/ at'[d] = "prune"
    BY <2>1, <2>3 DEF BackupTypes
  <2> QED
    BY <2>2, <2>3, <2>4 DEF Early, File
<1>2. CASE BeginSweep(x) /\ r = x
  BY <1>2 DEF BeginSweep, BackupTypes
<1>3. CASE at[r] = "prune" /\ d \in doomed[r]
  <2>1. d \in Run /\ d \notin Newest(Finished) /\ at[d] \notin Early
    BY <1>3 DEF Pruning, BackupTypes, Early
  <2>2. at'[d] \notin Early
    <3>1. CASE d = x
      BY <2>1, <3>1, Onward
    <3>2. CASE d # x
      BY <2>1, <3>2, OneRunMoves
    <3> QED
      BY <3>1, <3>2
  <2>3. Finished \subseteq Run
    BY DEF Finished
  <2>4. CASE Rename(x) /\ Finished' = Finished \cup {x}
    <3>1. Newest(Finished') \subseteq Newest(Finished) \cup {x}
      BY <2>3, <2>4, NewestOfMore
    <3>2. d # x
      BY <2>1, <2>4 DEF Rename, Early
    <3> QED
      BY <2>1, <2>2, <3>1, <3>2
  <2>5. CASE Finished' = Finished
    BY <2>1, <2>2, <2>5
  <2>6. ASSUME NEW p \in Finished, p \notin Newest(Finished), Finished' = Finished \ {p}
        PROVE  Newest(Finished') \subseteq Newest(Finished)
    BY <2>3, <2>6, NewestOfFewer
  <2> QED
    BY <2>1, <2>2, <2>4, <2>5, <2>6, FinishedMoves
<1> QED
  BY <1>1, <1>2, <1>3, Onward

\* What a sweeper has listed has ended without a backup, or met another run.
LEMMA SweepingStep ==
  ASSUME BackupInv, NEW x \in Run, Step(x)
  PROVE  Sweeping'
<1> USE DEF BackupInv
<1> SUFFICES ASSUME NEW r \in Run, at'[r] = "sweep", NEW d \in doomed'[r], d \notin met'
             PROVE  d \notin Finished' /\ at'[d] \in {"done", "failed", "died"}
  BY DEF Sweeping
<1>0. d \notin met
  BY OneRunMoves
<1>1. CASE BeginSweep(x) /\ r = x
  <2>1. /\ doomed' = [doomed EXCEPT ![x] = Partial] /\ at[x] = "prune"
        /\ folder' = folder /\ at' = [at EXCEPT ![x] = "sweep"]
    BY <1>1 DEF BeginSweep
  <2>2. d \in Partial /\ Finished' = Finished
    BY <1>1, <2>1 DEF BackupTypes, Finished
  <2>3. d \in Run /\ d \notin Finished /\ at[d] # "not started"
    BY <2>2 DEF Finished, Partial, Named
  <2>4. at[x] \notin Ended
    BY <2>1 DEF Ended
  <2>5. d # x
    <3>1. SUFFICES ASSUME x \notin met
                   PROVE  x \in Finished
      BY <1>0, <2>3
    <3>2. \A q \in Run : q > x => at[q] = "not started"
      BY <2>1, <2>4, <3>1 DEF Scheduled
    <3> QED
      BY <2>1, <3>1, <3>2 DEF LastStays
  <2>6. at[d] \in Ended
    BY <1>0, <2>3, <2>4, <2>5, OnlyOne
  <2>7. at'[d] = at[d]
    BY <2>3, <2>5, OneRunMoves
  <2> QED
    BY <2>2, <2>3, <2>6, <2>7 DEF Ended
<1>2. CASE ListOld(x) /\ r = x
  BY <1>2 DEF ListOld, BackupTypes
<1>3. CASE at[r] = "sweep" /\ d \in doomed[r]
  <2>1. d \in Run /\ d \notin Finished /\ at[d] \in {"done", "failed", "died"}
    BY <1>0, <1>3 DEF Sweeping, BackupTypes
  <2>2. d # x
    <3>1. BeginRun(x) \/ at[x] \notin Ended
      BY OneRunMoves
    <3>2. at[d] \in Ended /\ at[d] # "not started"
      BY <2>1 DEF Ended
    <3> QED
      BY <3>1, <3>2 DEF BeginRun
  <2>3. at'[d] = at[d]
    BY <2>1, <2>2, OneRunMoves
  <2> QED
    BY <2>1, <2>2, <2>3, FinishedMoves
<1> QED
  BY <1>1, <1>2, <1>3, Onward

\* The last run's backup is the newest of all: no pruner lists it, nor its own sweep.
LEMMA LastStaysStep ==
  ASSUME BackupInv, NEW x \in Run, Step(x)
  PROVE  LastStays'
<1> USE DEF BackupInv
<1> SUFFICES ASSUME NEW r \in Run, r \notin met', at'[r] \in {"list", "prune", "sweep", "done"},
                    \A q \in Run : q > r => at'[q] = "not started"
             PROVE  r \in Finished'
  BY DEF LastStays
<1>0. /\ r \notin met /\ at'[x] # "not started"
      /\ \A q \in Run : q # x => at'[q] = at[q]
      /\ BeginRun(x) \/ at[x] \notin Ended
  BY OneRunMoves
<1>1. ~(x > r) /\ \A q \in Run : q > r => at[q] = "not started"
  BY <1>0
<1>2. r = x
  <2> SUFFICES ASSUME r # x
               PROVE  FALSE
    OBVIOUS
  <2>1. at[r] # "not started" /\ x < r
    <3>1. x \in Nat /\ r \in Nat
      BY RunsAreNumbers
    <3>2. ~(x > r)
      BY <1>1
    <3>3. x < r
      <4>1. r # x
        OBVIOUS
      <4> QED
        BY <3>1, <3>2, <4>1, BiggerOrSmaller
    <3> QED
      BY <1>0, <3>3
  <2>2. at[x] \in Ended /\ at[x] # "not started"
    BY <1>0, <2>1 DEF Scheduled
  <2> QED
    BY <1>0, <2>2 DEF BeginRun
<1>3. CASE Rename(x)
  <2>1. Finished' = Finished \cup {x}
    BY <1>3, RenameFinishes
  <2> QED
    BY <1>2, <2>1
<1>4. CASE ~Rename(x)
  <2>1. at[x] \in {"list", "prune", "sweep"}
    <3>1. at'[x] \notin Early \cup {"failed", "died"}
      BY <1>2 DEF Early, File
    <3> QED
      BY <1>4, <3>1, Onward
  <2>2. r \in Finished
    BY <1>0, <1>1, <1>2, <2>1 DEF LastStays
  <2>3. \A q \in Finished : ~(q > r)
    BY <1>1 DEF Finished, Named
  <2>4. r \in Newest(Finished)
    <3>1. Finished \in SUBSET Run
      BY DEF Finished
    <3> QED
      BY <2>2, <2>3, <3>1, LastIsNewest
  <2> QED
    BY <1>4, <2>2, <2>4, FinishedMoves
<1> QED
  BY <1>3, <1>4

\* The initial states satisfy the inductive invariant of the backups.
LEMMA InitBackup == BackupInit => BackupInv
<1> SUFFICES ASSUME BackupInit
             PROVE  BackupInv
  OBVIOUS
<1> USE DEF BackupInit
<1>1. BackupTypes
  <2>1. "not started" \in Places /\ source \subseteq File
    BY BackupAssumption DEF Places, Ended, File
  <2> QED
    BY <2>1 DEF BackupTypes
<1>2. Scheduled
  BY DEF Scheduled
<1>3. Finished = {} /\ Newest(Finished) = {}
  BY DEF Finished, Newest
<1> QED
  BY <1>1, <1>2, <1>3 DEF BackupInv, Named, Copied, Whole, Pruning, Sweeping, LastStays, File

\* Every step keeps it.
LEMMA StepBackup ==
  ASSUME BackupInv, [BackupNext]_backupVars
  PROVE  BackupInv'
<1>1. CASE UNCHANGED backupVars
  <2>1. UNCHANGED <<source, folder, at, doomed, wanted, met>> /\ Finished' = Finished
    BY <1>1 DEF backupVars, Finished
  <2>2. (Scheduled /\ Named /\ Copied)'
    BY <2>1 DEF BackupInv, Scheduled, Named, Copied
  <2>3. (Whole /\ Pruning /\ Sweeping /\ LastStays)'
    BY <2>1 DEF BackupInv, Whole, Pruning, Sweeping, LastStays
  <2> QED
    BY <1>1, <2>2, <2>3, TypesStep DEF BackupInv
<1>2. ASSUME NEW x \in Run, Step(x)
      PROVE  BackupInv'
  <2>1. BackupNext
    BY <1>2 DEF BackupNext, Step
  <2> QED
    BY <1>2, <2>1, TypesStep, ScheduledStep, NamedStep, CopiedStep, WholeStep, PruningStep,
       SweepingStep, LastStaysStep DEF BackupInv
<1> QED
  BY <1>1, <1>2 DEF BackupNext, Step

\* The inductive invariant of the backups.
THEOREM BackupInvariant == BackupSpec => []BackupInv
BY InitBackup, StepBackup, PTL DEF BackupSpec

\* A backup that looks finished is one, and a run that went through leaves one:
\* the rename comes after the last copy, and neither the pruning nor the sweep of
\* run_backup touches what counts as one of the newest.
THEOREM BackupCorrect == BackupSpec => []FinishedIsComplete
<1>1. BackupInv => FinishedIsComplete
  <2> SUFFICES ASSUME BackupInv, NEW r \in Run \ met
               PROVE  /\ r \in Newest(Finished) => wanted[r] \subseteq folder[r].files
                      /\ at[r] = "done" /\ (\A q \in Run : q > r => at[q] = "not started") =>
                           r \in Newest(Finished)
    BY DEF FinishedIsComplete
  <2> USE DEF BackupInv
  <2>1. r \in Newest(Finished) => wanted[r] \subseteq folder[r].files
    BY DEF Whole
  <2>2. ASSUME at[r] = "done", \A q \in Run : q > r => at[q] = "not started"
        PROVE  r \in Newest(Finished)
    <3>1. r \in Finished /\ Finished \in SUBSET Run
      BY <2>2 DEF LastStays, Finished
    <3>2. \A q \in Finished : ~(q > r)
      BY <2>2 DEF Finished, Named
    <3> QED
      BY <3>1, <3>2, LastIsNewest
  <2> QED
    BY <2>1, <2>2
<1> QED
  BY <1>1, BackupInvariant, PTL
=============================================================================
