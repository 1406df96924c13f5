-------------------------------- MODULE Backup --------------------------------
(***************************************************************************)
(* run_backup of jobs/backup.py: a run assembles its copies in a folder    *)
(* with a temporary name, renames it once complete, removes the finished   *)
(* backups beyond the newest Keep, and sweeps every folder that still has  *)
(* a temporary name, another run's included.  shutil.rmtree scans a folder *)
(* once, removes what it saw file by file, then the folder: a file written *)
(* meanwhile makes that last removal fail, and a folder renamed meanwhile  *)
(* loses its files all the same.  A run may die between any two steps.     *)
(*                                                                         *)
(* Runs are numbered by the second they start in, which names the folder;  *)
(* a second run in one second refuses before it writes anything.  What     *)
(* there is to back up does not change meanwhile.                          *)
(***************************************************************************)
EXTENDS Optional

CONSTANTS Sources,   \* what there may be to back up
          Keep,      \* how many finished backups to keep
          Runs, Together, Deaths   \* bounds: runs, runs at a time, runs that die

ASSUME BackupAssumption ==
  Sources \subseteq SUBSET {"accounts", "jobs", "overlay"} /\ Keep \in Nat \ {0} /\ Runs \in Nat /\ Together \in Nat /\ Deaths \in Nat

Run == 1 .. Runs

\* What is backed up, and what comes after it.
File == {"accounts", "jobs", "overlay"}
After == [accounts |-> "jobs", jobs |-> "overlay", overlay |-> "rename"]

\* A folder, under its final name or the temporary one
Folder == [final : BOOLEAN, files : SUBSET File]

ASSUME NoFolderAssumption == None \notin Folder

VARIABLES
  source,   \* the files there are to back up
  folder,   \* each run's folder: whether it has its final name, and its files
  at,       \* where each run is
  doomed,   \* the folders a run has still to remove
  left,     \* of the first of those, the files seen and not removed; or None
  wanted,   \* the files there were when the run began (history)
  met       \* runs that were under way together with another (history)

backupVars == <<source, folder, at, doomed, left, wanted, met>>

BackupInit ==
  /\ source \in Sources
  /\ folder = [r \in Run |-> None] /\ at = [r \in Run |-> "not started"]
  /\ doomed = [r \in Run |-> {}] /\ left = [r \in Run |-> None]
  /\ wanted = [r \in Run |-> {}] /\ met = {}

Ended == {"not started", "done", "failed", "died"}
UnderWay == {r \in Run : at[r] \notin Ended}
Finished == {r \in Run : folder[r] # None /\ folder[r].final}
Partial == {r \in Run : folder[r] # None /\ ~folder[r].final}
FirstDoomed(r, q) == q \in doomed[r] /\ \A p \in doomed[r] : q <= p
Newest(S) == {r \in S : Cardinality({q \in S : q > r}) < Keep}

BeginRun(r) ==
  /\ at[r] = "not started" /\ \A q \in 1 .. r - 1 : at[q] # "not started"
  /\ Cardinality(UnderWay) < Together
  /\ folder' = [folder EXCEPT ![r] = [final |-> FALSE, files |-> {}]]
  /\ at' = [at EXCEPT ![r] = "accounts"]
  /\ met' = IF UnderWay = {} THEN met ELSE met \cup UnderWay \cup {r}
  /\ wanted' = [wanted EXCEPT ![r] = source]
  /\ UNCHANGED <<source, doomed, left>>

\* Variant: the folder is renamed before the overlay is copied.
CopyNextRenamed(r, f) ==
  /\ at[r] = f
  /\ f \in source => folder[r] # None
  /\ folder' = IF f \notin source THEN folder
               ELSE [folder EXCEPT ![r] = [final |-> f # "accounts", files |-> @.files \cup {f}]]
  /\ at' = [at EXCEPT ![r] = After[f]]
  /\ UNCHANGED <<source, doomed, left, wanted, met>>

\* One source after another; one that does not exist yet is skipped
CopyNext(r, f) ==
  /\ at[r] = f
  /\ f \in source => folder[r] # None
  /\ folder' = IF f \notin source THEN folder
               ELSE [folder EXCEPT ![r].files = @ \cup {f}]
  /\ at' = [at EXCEPT ![r] = After[f]]
  /\ UNCHANGED <<source, doomed, left, wanted, met>>

Rename(r) ==
  /\ at[r] = "rename" /\ folder[r] # None
  /\ folder' = [folder EXCEPT ![r] = [final |-> TRUE, files |-> @.files]]
  /\ at' = [at EXCEPT ![r] = "list"]
  /\ UNCHANGED <<source, doomed, left, wanted, met>>

\* A copy fails (its integrity check, a full disk), or the folder is gone: the
\* folder is removed and the run fails
GiveUp(r) ==
  /\ at[r] \in File \/ (at[r] = "rename" /\ folder[r] = None)
  /\ folder' = [folder EXCEPT ![r] = None]
  /\ at' = [at EXCEPT ![r] = "failed"]
  /\ UNCHANGED <<source, doomed, left, wanted, met>>

ListOld(r) ==
  /\ at[r] = "list"
  /\ doomed' = [doomed EXCEPT ![r] = Finished \ Newest(Finished)]
  /\ at' = [at EXCEPT ![r] = "prune"]
  /\ UNCHANGED <<source, folder, left, wanted, met>>

\* rmtree: the folder is scanned...
Scan(r, q) ==
  /\ at[r] \in {"prune", "sweep"} /\ left[r] = None
  /\ FirstDoomed(r, q)
  /\ folder[q] # None
  /\ left' = [left EXCEPT ![r] = folder[q].files]
  /\ UNCHANGED <<source, folder, at, doomed, wanted, met>>

\* ...each file it held removed, under whatever name the folder has by now...
RemoveFile(r, q, f) ==
  /\ at[r] \in {"prune", "sweep"} /\ left[r] # None /\ f \in left[r]
  /\ FirstDoomed(r, q)
  /\ folder[q] # None /\ f \in folder[q].files
  /\ folder' = [folder EXCEPT ![q].files = @ \ {f}]
  /\ left' = [left EXCEPT ![r] = @ \ {f}]
  /\ UNCHANGED <<source, at, doomed, wanted, met>>

\* ...then the folder, if it is empty and has kept its name.  The sweep ignores
\* what it could not remove.
RemoveFolder(r, q) ==
  /\ at[r] \in {"prune", "sweep"} /\ left[r] = {}
  /\ FirstDoomed(r, q)
  /\ folder[q] # None
  /\ \/ at[r] = "sweep"
     \/ folder[q].files = {}
  /\ folder' = IF folder[q].files = {} /\ folder[q].final = (at[r] = "prune")
               THEN [folder EXCEPT ![q] = None] ELSE folder
  /\ left' = [left EXCEPT ![r] = None]
  /\ doomed' = [doomed EXCEPT ![r] = @ \ {q}]
  /\ UNCHANGED <<source, at, wanted, met>>

\* Another run has removed the folder or the file first: pruning fails the run,
\* the sweep goes on
Missing(r, q) ==
  /\ at[r] \in {"prune", "sweep"}
  /\ FirstDoomed(r, q)
  /\ IF folder[q] = None THEN TRUE
     ELSE left[r] \notin {None, {}} /\ left[r] \cap folder[q].files = {}
  /\ IF at[r] = "prune"
     THEN at' = [at EXCEPT ![r] = "failed"] /\ UNCHANGED <<doomed, left>>
     ELSE /\ IF folder[q] = None
             THEN /\ doomed' = [doomed EXCEPT ![r] = @ \ {q}]
                  /\ left' = [left EXCEPT ![r] = None]
             ELSE left' = [left EXCEPT ![r] = {}] /\ UNCHANGED doomed
          /\ UNCHANGED at
  /\ UNCHANGED <<source, folder, wanted, met>>

\* The old ones are gone: every half-written folder is next, then the run is done
BeginSweep(r) ==
  /\ at[r] = "prune" /\ doomed[r] = {}
  /\ doomed' = [doomed EXCEPT ![r] = Partial]
  /\ at' = [at EXCEPT ![r] = "sweep"]
  /\ UNCHANGED <<source, folder, left, wanted, met>>

EndRun(r) ==
  /\ at[r] = "sweep" /\ doomed[r] = {}
  /\ at' = [at EXCEPT ![r] = "done"]
  /\ UNCHANGED <<source, folder, doomed, left, wanted, met>>

Die(r) ==
  /\ r \in UnderWay /\ Cardinality({q \in Run : at[q] = "died"}) < Deaths
  /\ at' = [at EXCEPT ![r] = "died"]
  /\ UNCHANGED <<source, folder, doomed, left, wanted, met>>

BackupNext ==
  \E r \in Run :
       \/ BeginRun(r) \/ Rename(r) \/ GiveUp(r) \/ ListOld(r)
       \/ \E f \in File : CopyNext(r, f)
       \/ \E q \in Run : \/ Scan(r, q) \/ RemoveFolder(r, q) \/ Missing(r, q)
                         \/ \E f \in File : RemoveFile(r, q, f)
       \/ BeginSweep(r) \/ EndRun(r) \/ Die(r)

BackupSpec == BackupInit /\ [][BackupNext]_backupVars

-----------------------------------------------------------------------------
\* Whatever died where, a backup that looks finished is one, as long as runs keep
\* out of each other's way: each of the newest Keep folders with a final name,
\* whose run met no other, holds every file there was to copy.  And a run that met
\* no other and went through leaves a finished backup behind it.
FinishedIsComplete ==
  \A r \in Run \ met :
    /\ r \in Newest(Finished) => wanted[r] \subseteq folder[r].files
    /\ at[r] = "done" /\ (\A q \in Run : q > r => at[q] = "not started") =>
         r \in Newest(Finished)
=============================================================================
