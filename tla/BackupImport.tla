---------------------------- MODULE BackupImport ----------------------------
(***************************************************************************)
(* System backups and the import of their artifacts.  createBackup dumps   *)
(* the database while the backup's own row is still running, writes the    *)
(* artifact and completes the row.  An import puts an artifact in          *)
(* quarantine, and its validation moves it to a place named for the backup *)
(* inside it, lists that backup and settles the import; three steps over a *)
(* file system and a database that share no transaction.  A restore brings *)
(* back the rows of a dump and leaves the files as they are; the dump in   *)
(* an artifact made elsewhere has all rows of the instance that made it,   *)
(* and its files are not on this host.                                     *)
(*                                                                         *)
(* An artifact is a backup identifier with a checksum, 1 for the backup    *)
(* itself, 2 for another file under the same identifier.  An import row is *)
(* claimed at most once, since nothing takes it back to uploaded, so its   *)
(* validation revision never tells two claims apart and is left out.       *)
(***************************************************************************)
EXTENDS Naturals

CONSTANTS
  Own,        \* the backups this instance makes
  Foreign,    \* the backups another instance with the same key has made
  Imports,    \* the rows of system_backup_imports
  Elsewhere,  \* the rows in dumps that were made elsewhere
  MaxFaults

ASSUME ImportAssumption == Own \cap Foreign = {} /\ Own \cup Foreign # {} /\ MaxFaults \in Nat

VARIABLES
  backup,   \* the rows of system_backups
  imp,      \* the rows of system_backup_imports
  dump,     \* the rows in the dump of each backup made here
  file,     \* the artifacts, by backup and place: 0 where there is none
  held,     \* the imports whose artifact is in quarantine
  maker,    \* the place of createBackup for each backup
  at,       \* the place of the request that serves each import
  cut,      \* history: backups whose listing a crash, an error or a restore prevented
  astray,   \* history: backups whose row came with a dump made elsewhere
  faults

rows == <<backup, imp>>
files == <<file, held>>
vars == <<backup, imp, dump, file, held, maker, at, cut, astray, faults>>

Backups == Own \cup Foreign
Active == {"uploading", "uploaded", "validating"}

NoBackup == [status |-> "none", place |-> "own", sum |-> 0]
NoImport == [status |-> "none", id |-> CHOOSE b \in Backups : TRUE, sum |-> 1]

BackupRows == [status : {"none", "running", "succeeded", "failed"}, place : {"own", "imported"}, sum : 0..2]
ImportRows == [status : {"none", "imported", "rejected"} \cup Active, id : Backups, sum : 1..2]
Rows == [backup : [Backups -> BackupRows], imp : [Imports -> ImportRows], astray : SUBSET Backups]
Places == {"idle", "upload", "stored", "look", "move", "insert", "finish", "fail"}

\* The rows as they are.
Cur == [backup |-> backup, imp |-> imp, astray |-> astray]

TypeOK ==
  /\ Cur \in Rows
  /\ DOMAIN dump = Own /\ \A b \in Own : dump[b] \in Rows
  /\ file \in [Backups -> [{"own", "imported"} -> 0..2]]
  /\ held \subseteq Imports
  /\ maker \in [Own -> {"new", "dump", "write", "complete", "ended"}]
  /\ at \in [Imports -> Places]
  /\ cut \subseteq Backups
  /\ faults \in 0..MaxFaults

Empty == [backup |-> [b \in Backups |-> NoBackup], imp |-> [i \in Imports |-> NoImport], astray |-> {}]

\* What holds of the rows of another instance, as of any: one import at most is
\* active, one that reports success has its backup in the list, and a listed
\* backup has a checksum.  As its files are not on this host, all of its backups
\* are astray here.
OfAnother(R) ==
  /\ \A i, j \in Imports : R.imp[i].status \in Active /\ R.imp[j].status \in Active => i = j
  /\ \A i \in Imports : R.imp[i].status = "imported" =>
       R.backup[R.imp[i].id].status = "succeeded" /\ R.backup[R.imp[i].id].sum = R.imp[i].sum
  /\ \A b \in Backups : R.backup[b].status = "succeeded" => R.backup[b].sum # 0
  /\ R.astray = {b \in Backups : R.backup[b].status # "none"}

ASSUME ElsewhereAssumption == \A R \in Elsewhere : R \in Rows /\ OfAnother(R)

Init ==
  /\ backup = Empty.backup /\ imp = Empty.imp
  /\ dump = [b \in Own |-> Empty]
  /\ file = [b \in Backups |-> [p \in {"own", "imported"} |-> 0]]
  /\ held = {} /\ cut = {} /\ astray = {}
  /\ maker = [b \in Own |-> "new"]
  /\ at = [i \in Imports |-> "idle"]
  /\ faults = 0

Fault == faults < MaxFaults /\ faults' = faults + 1

\* getSystemBackup
Listed(b) == backup[b].status = "succeeded"

\* The backup's artifact is there, with the size and checksum of its row, and is
\* the same file before and after it was read.
Intact(b) == file[b][backup[b].place] = backup[b].sum

\* What an export and the staging of a restore ask for.
Served(b) == Listed(b) /\ Intact(b)

-----------------------------------------------------------------------------
(* createBackup *)

\* createSystemBackup
Requested == [NoBackup EXCEPT !.status = "running"]

CreateBackup(b) ==
  /\ maker[b] = "new"
  /\ maker' = [maker EXCEPT ![b] = "dump"]
  /\ backup' = [backup EXCEPT ![b] = Requested]
  /\ UNCHANGED <<imp, dump, files, at, cut, astray, faults>>

Dump(b) ==
  /\ maker[b] = "dump"
  /\ maker' = [maker EXCEPT ![b] = "write"]
  /\ dump' = [dump EXCEPT ![b] = Cur]
  /\ UNCHANGED <<rows, files, at, cut, astray, faults>>

\* The finished artifact is renamed into place.
WriteArtifact(b) ==
  /\ maker[b] = "write"
  /\ maker' = [maker EXCEPT ![b] = "complete"]
  /\ file' = [file EXCEPT ![b]["own"] = 1]
  /\ UNCHANGED <<rows, dump, held, at, cut, astray, faults>>

\* completeSystemBackup
CompleteBackup(b) ==
  /\ maker[b] = "complete"
  /\ maker' = [maker EXCEPT ![b] = "ended"]
  /\ backup' = [backup EXCEPT ![b] = [@ EXCEPT !.status = "succeeded", !.sum = 1]]
  /\ UNCHANGED <<imp, dump, files, at, cut, astray, faults>>

\* failSystemBackup, which may fail as well; an artifact in place stays there.
BackupFails(b) ==
  /\ Fault
  /\ maker[b] \in {"dump", "write", "complete"}
  /\ maker' = [maker EXCEPT ![b] = "ended"]
  /\ backup' \in {backup, [backup EXCEPT ![b].status = "failed"]}
  /\ UNCHANGED <<imp, dump, files, at, cut, astray>>

-----------------------------------------------------------------------------
(* uploadImport *)

\* Mutant of Busy: any number of imports may be active.
BusyNever == FALSE

\* The unique index over the imports that are not settled.
Busy == \E i \in Imports : imp[i].status \in Active

Obtainable == {a \in Backups \X {1, 2} : a[1] \in Foreign \/ file[a[1]]["own"] = 1}

\* createSystemBackupImport
Upload(artifact) == [status |-> "uploading", id |-> artifact[1], sum |-> artifact[2]]

StartUpload(i) ==
  /\ imp[i].status = "none" /\ at[i] = "idle" /\ i \notin held
  /\ ~Busy
  /\ \E a \in Obtainable : imp' = [imp EXCEPT ![i] = Upload(a)]
  /\ at' = [at EXCEPT ![i] = "upload"]
  /\ UNCHANGED <<backup, dump, files, maker, cut, astray, faults>>

\* The upload is complete, and its partial file renamed.
StoreUpload(i) ==
  /\ at[i] = "upload"
  /\ at' = [at EXCEPT ![i] = "stored"]
  /\ held' = held \cup {i}
  /\ UNCHANGED <<rows, dump, file, maker, cut, astray, faults>>

\* updateSystemBackupImport
RecordUpload(i) ==
  /\ at[i] = "stored"
  /\ at' = [at EXCEPT ![i] = "idle"]
  /\ imp' = [imp EXCEPT ![i].status = "uploaded"]
  /\ UNCHANGED <<backup, dump, files, maker, cut, astray, faults>>

\* A truncated upload or a failed step: no file is left, and the row is rejected
\* unless that fails too.
UploadFails(i) ==
  /\ at[i] \in {"upload", "stored"}
  /\ at' = [at EXCEPT ![i] = "idle"]
  /\ held' = held \ {i}
  /\ \/ imp' = [imp EXCEPT ![i].status = "rejected"] /\ UNCHANGED faults
     \/ UNCHANGED imp /\ Fault
  /\ UNCHANGED <<backup, dump, file, maker, cut, astray>>

-----------------------------------------------------------------------------
(* validateImport *)

Goto(i, place) == at' = [at EXCEPT ![i] = place]

\* claimSystemBackupImport
Claimable(i) == imp[i].status = "uploaded"

Claim(i) ==
  /\ Claimable(i) /\ at[i] = "idle"
  /\ Goto(i, "look")
  /\ imp' = [imp EXCEPT ![i].status = "validating"]
  /\ UNCHANGED <<backup, dump, files, maker, cut, astray, faults>>

\* inspectArtifact throws: the artifact is gone, does not open with the passphrase,
\* holds something else than a backup's files, or is another instance's.
Unreadable(i) ==
  /\ at[i] = "look"
  /\ Goto(i, "fail")
  /\ UNCHANGED <<rows, dump, files, maker, cut, astray, faults>>

Occupied(b) == file[b]["imported"] # 0

\* The backup is listed already, or is not and its destination is looked at.
Look(i) ==
  LET b == imp[i].id  s == imp[i].sum IN
  /\ at[i] = "look" /\ i \in held
  /\ IF Listed(b)
       THEN IF backup[b].sum = s
              THEN Goto(i, "finish") /\ held' = held \ {i}
              ELSE Goto(i, "fail") /\ UNCHANGED held
       ELSE Goto(i, IF Occupied(b) THEN "fail" ELSE "move") /\ UNCHANGED held
  /\ UNCHANGED <<rows, dump, file, maker, cut, astray, faults>>

\* The artifact leaves the quarantine for its destination.
MoveImport(i) ==
  /\ at[i] = "move"
  /\ Goto(i, "insert")
  /\ file' = [file EXCEPT ![imp[i].id]["imported"] = imp[i].sum]
  /\ held' = held \ {i}
  /\ UNCHANGED <<rows, dump, maker, cut, astray, faults>>

\* Mutant of Verdict: any row of that identifier is taken for this backup.
VerdictById(b, s) == IF backup[b].status = "none" THEN "created" ELSE "idempotent"

\* importSystemBackup; a row without a checksum matches nothing.
Verdict(b, s) ==
  CASE backup[b].status = "none" -> "created"
    [] backup[b].status # "none" /\ backup[b].sum = s -> "idempotent"
    [] OTHER -> "conflict"

\* Mutant of Kept: a conflict leaves the artifact where it is.
KeptUnlessListed(verdict) == verdict # "idempotent"

\* Whether the artifact stays at its destination.
Kept(verdict) == verdict = "created"

ListBackup(i) ==
  LET b == imp[i].id  s == imp[i].sum  verdict == Verdict(b, s) IN
  /\ at[i] = "insert"
  /\ backup' = IF verdict = "created"
                 THEN [backup EXCEPT ![b] = [status |-> "succeeded", place |-> "imported", sum |-> s]]
                 ELSE backup
  /\ file' = IF Kept(verdict) THEN file ELSE [file EXCEPT ![b]["imported"] = 0]
  /\ Goto(i, IF verdict = "created" \/ (verdict = "idempotent" /\ Listed(b)) THEN "finish" ELSE "fail")
  /\ UNCHANGED <<imp, dump, held, maker, cut, astray, faults>>

\* The insertion fails: the artifact stays at its destination and nobody lists it.
ListFails(i) ==
  /\ Fault
  /\ at[i] = "insert"
  /\ Goto(i, "fail")
  /\ cut' = cut \cup {imp[i].id}
  /\ UNCHANGED <<rows, dump, files, maker, astray>>

\* finishSystemBackupImport
Settle(i, status) == imp' = [imp EXCEPT ![i].status = status]

FinishImport(i) ==
  /\ at[i] = "finish"
  /\ \/ Goto(i, "idle") /\ Settle(i, "imported") /\ UNCHANGED faults
     \/ Goto(i, "fail") /\ UNCHANGED imp /\ Fault
  /\ UNCHANGED <<backup, dump, files, maker, cut, astray>>

\* The catch of validateImport.
RejectImport(i) ==
  /\ at[i] = "fail"
  /\ Goto(i, "idle")
  /\ held' = held \ {i}
  /\ \/ Settle(i, "rejected") /\ UNCHANGED faults
     \/ UNCHANGED imp /\ Fault
  /\ UNCHANGED <<backup, dump, file, maker, cut, astray>>

-----------------------------------------------------------------------------
(* Crashes and restores *)

\* rejectStaleSystemBackupImports: the imports that are more than a day old, which
\* all are or none.
Stale(list, old) == {i \in Imports : old /\ list[i].status \in Active}

\* Every request is gone; cleanupStaleImports runs on the way up.
StartUp(list) ==
  /\ at' = [i \in Imports |-> "idle"]
  /\ maker' = [b \in Own |-> IF maker[b] = "new" THEN "new" ELSE "ended"]
  /\ \E old \in BOOLEAN :
       LET stale == Stale(list, old) IN
       /\ imp' = [i \in Imports |-> IF i \in stale THEN [list[i] EXCEPT !.status = "rejected"] ELSE list[i]]
       /\ held' = held \ stale

Crash ==
  /\ Fault
  /\ StartUp(imp)
  /\ cut' = cut \cup {imp[i].id : i \in {j \in Imports : at[j] = "insert"}}
  /\ UNCHANGED <<backup, dump, file, astray>>

\* Another instance knows of a backup of this one what there is to know, and the
\* names of its own imports are in nobody's quarantine here.
Possible(R) ==
  /\ \A b \in Own : maker[b] = "new" => R.backup[b] = NoBackup
  /\ \A b \in Own : R.backup[b].status = "succeeded" => file[b]["own"] = 1
  /\ \A i \in Imports : R.imp[i].status # "none" =>
       i \notin held /\ (R.imp[i].id \in Own => file[R.imp[i].id]["own"] = 1)

\* The rows a restore of this backup brings back: those of the moment its dump
\* was made, when its own was running.
Dumped(b) == IF b \in Own /\ backup[b].sum = 1 THEN {dump[b]}
             ELSE {R \in Elsewhere : R.backup[b] = Requested /\ Possible(R)}

\* A restore of a listed backup: the rows of its dump, its own set to succeeded;
\* the files stay.
Restore(b) ==
  /\ Fault
  /\ Served(b)
  /\ \E brought \in Dumped(b) :
       /\ backup' = [brought.backup EXCEPT ![b] = [@ EXCEPT !.status = "succeeded", !.sum = backup[b].sum]]
       /\ astray' = brought.astray
       /\ StartUp(brought.imp)
  /\ cut' = cut \cup {c \in Backups : Occupied(c)}
  /\ UNCHANGED <<dump, file>>

-----------------------------------------------------------------------------
Next ==
  \/ \E b \in Own : CreateBackup(b) \/ Dump(b) \/ WriteArtifact(b) \/ CompleteBackup(b) \/ BackupFails(b)
  \/ \E i \in Imports :
       \/ StartUpload(i) \/ StoreUpload(i) \/ RecordUpload(i) \/ UploadFails(i)
       \/ Claim(i) \/ Unreadable(i) \/ Look(i) \/ MoveImport(i) \/ ListBackup(i) \/ ListFails(i)
       \/ FinishImport(i) \/ RejectImport(i)
  \/ Crash
  \/ \E b \in Backups : Restore(b)

Spec == Init /\ [][Next]_vars

-----------------------------------------------------------------------------
(* Properties *)

\* A listed backup has its artifact, with the checksum of its row, whatever
\* imports, crashes and restores went on; validateImport removes a destination
\* it believes to be its own.  The exception is a backup whose row came with the
\* dump of another instance, and names a file that is not on this host.
BackupHasArtifact ==
  \A b \in Backups : backup[b].status = "succeeded" =>
    file[b][backup[b].place] = backup[b].sum \/ b \in astray

\* An import that reports success has its backup in the list, and with its own
\* checksum: importSystemBackup never takes another backup for it.
ImportedIsListed ==
  \A i \in Imports : imp[i].status = "imported" =>
    /\ backup[imp[i].id].status = "succeeded"
    /\ backup[imp[i].id].sum = imp[i].sum

\* An import's destination is occupied by a listed backup or by the import at
\* work on it, so that no rejected import stands in the way of a later one,
\* unless a crash, a failed insertion or a restore came between.
DestinationIsListed ==
  \A b \in Backups : file[b]["imported"] # 0 =>
    \/ backup[b].status = "succeeded" /\ backup[b].place = "imported"
    \/ \E i \in Imports : at[i] = "insert" /\ imp[i].id = b
    \/ b \in cut
=============================================================================
