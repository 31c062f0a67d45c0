-------------------------- MODULE BackupImportProofs ------------------------
(***************************************************************************)
(* Machine-checked proofs about BackupImport, for any backups, any imports *)
(* and any number of faults.                                               *)
(***************************************************************************)
EXTENDS BackupImport, TLAPS

USE ImportAssumption, ElsewhereAssumption DEF ImportAssumption, ElsewhereAssumption, Backups, Active

-----------------------------------------------------------------------------
(* The inductive invariant *)

\* The rows of a moment that files, history and requests of now agree with.  It
\* holds of the present rows and of those in every dump, since a restore brings
\* these back and leaves the files: f are the files, m the makers,
\* w the backups whose artifact an import has or is about to have in
\* place without a row.
RowsOK(R, f, m, w) ==
  /\ \A i, j \in Imports : R.imp[i].status \in Active /\ R.imp[j].status \in Active => i = j
  /\ \A i \in Imports :
       R.imp[i].status = "imported" =>
         /\ R.backup[R.imp[i].id].status = "succeeded"
         /\ R.backup[R.imp[i].id].sum = R.imp[i].sum
  /\ \A i \in Imports : R.imp[i].status # "none" /\ R.imp[i].id \in Own => f[R.imp[i].id]["own"] = 1
  /\ \A b \in Backups :
       R.backup[b].status = "succeeded" =>
         /\ R.backup[b].sum # 0
         /\ f[b][R.backup[b].place] = R.backup[b].sum \/ b \in R.astray
         /\ b \in Own => f[b]["own"] = 1
         /\ b \in w /\ R.backup[b].place = "imported" => b \in R.astray
  /\ \A b \in Own : m[b] = "new" => R.backup[b] = NoBackup

Moving == {imp[i].id : i \in {j \in Imports : at[j] \in {"move", "insert"}}}

\* What a request at work on an import knows of its row and of the artifact.
WorkOK(i) ==
  /\ at[i] \in {"upload", "stored"} => imp[i].status = "uploading"
  /\ at[i] \in {"look", "move", "insert", "finish", "fail"} => imp[i].status = "validating"
  /\ at[i] = "move" => file[imp[i].id]["imported"] = 0
  /\ at[i] = "insert" => file[imp[i].id]["imported"] = imp[i].sum
  /\ at[i] = "finish" =>
       backup[imp[i].id].status = "succeeded" /\ backup[imp[i].id].sum = imp[i].sum

\* How far createBackup is, what it has put where, and that the dump has the
\* backup's own row as it was then.
MakerOK(b) ==
  /\ maker[b] \in {"dump", "write", "complete"} =>
       backup[b] = [status |-> "running", place |-> "own", sum |-> 0]
  /\ maker[b] = "complete" => file[b]["own"] = 1
  /\ maker[b] = "new" => file[b]["own"] = 0
  /\ dump[b].backup[b].status # "succeeded" /\ dump[b].backup[b].place = "own"

IInv ==
  /\ TypeOK
  /\ RowsOK(Cur, file, maker, Moving)
  /\ \A b \in Own : RowsOK(dump[b], file, maker, Moving)
  /\ \A i \in Imports : WorkOK(i)
  /\ \A b \in Own : MakerOK(b)
  /\ DestinationIsListed

-----------------------------------------------------------------------------
(* Facts about rows *)

LEMMA RowTypes ==
  /\ NoBackup \in BackupRows /\ NoImport \in ImportRows /\ Empty \in Rows
  /\ Empty.backup = [b \in Backups |-> NoBackup] /\ Empty.imp = [i \in Imports |-> NoImport]
  /\ NoBackup.status = "none" /\ NoBackup.place = "own" /\ NoImport.status = "none"
<1>1. NoBackup \in BackupRows
  BY DEF NoBackup, BackupRows
<1>2. (CHOOSE b \in Backups : TRUE) \in Backups
  OBVIOUS
<1>3. NoImport \in ImportRows
  BY <1>2 DEF NoImport, ImportRows
<1>4. NoBackup.status = "none" /\ NoBackup.place = "own" /\ NoImport.status = "none"
  BY DEF NoBackup, NoImport
<1> QED
  BY <1>1, <1>3, <1>4 DEF Empty, Rows

\* Rows nobody writes to stay in agreement while the artifacts of this instance's
\* backups stay in place, and only destinations change that are empty or that an
\* import is at work on.
LEMMA RowsKept ==
  ASSUME NEW R \in Rows, NEW f, NEW m, NEW w, NEW f2, NEW m2, NEW w2,
         RowsOK(R, f, m, w),
         \A b \in Own : f[b]["own"] = 1 => f2[b]["own"] = 1,
         \A b \in Foreign : f2[b]["own"] = f[b]["own"],
         \A b \in Backups :
           f2[b]["imported"] = f[b]["imported"] \/ f[b]["imported"] = 0 \/ b \in w,
         \A b \in Own : m2[b] = "new" => m[b] = "new",
         \A b \in w2 : b \in w \/ f[b]["imported"] = 0
  PROVE  RowsOK(R, f2, m2, w2)
<1>1. ASSUME NEW b \in Backups, R.backup[b].status = "succeeded"
      PROVE  /\ f2[b][R.backup[b].place] = R.backup[b].sum \/ b \in R.astray
             /\ b \in Own => f2[b]["own"] = 1
             /\ b \in w2 /\ R.backup[b].place = "imported" => b \in R.astray
  <2>1. R.backup[b].place \in {"own", "imported"}
    BY DEF Rows, BackupRows
  <2>2. CASE R.backup[b].place = "own"
    BY <1>1, <2>2 DEF RowsOK
  <2>3. CASE R.backup[b].place = "imported"
    BY <1>1, <2>3 DEF RowsOK
  <2> QED
    BY <2>1, <2>2, <2>3
<1> QED
  BY <1>1 DEF RowsOK

\* An import's row takes another status.
LEMMA ImportRowStep ==
  ASSUME NEW R \in Rows, NEW f, NEW m, NEW w, RowsOK(R, f, m, w),
         NEW i \in Imports, NEW s,
         s \in Active => R.imp[i].status \in Active,
         s = "imported" => /\ R.backup[R.imp[i].id].status = "succeeded"
                           /\ R.backup[R.imp[i].id].sum = R.imp[i].sum,
         R.imp[i].status # "none"
  PROVE  RowsOK([backup |-> R.backup, imp |-> [R.imp EXCEPT ![i].status = s], astray |-> R.astray], f, m, w)
<1> DEFINE new == [R.imp EXCEPT ![i].status = s]
<1>1. R.imp \in [Imports -> ImportRows]
  BY DEF Rows
<1>2. /\ new[i].status = s /\ new[i].id = R.imp[i].id /\ new[i].sum = R.imp[i].sum
      /\ \A j \in Imports : j # i => new[j] = R.imp[j]
  BY <1>1 DEF ImportRows
<1> HIDE DEF new
<1>3. RowsOK([backup |-> R.backup, imp |-> new, astray |-> R.astray], f, m, w)
  BY <1>2 DEF RowsOK
<1> QED
  BY <1>3 DEF new

\* A backup that is not listed gets another row, or is listed.
LEMMA BackupRowStep ==
  ASSUME NEW R \in Rows, NEW f, NEW m, NEW w, RowsOK(R, f, m, w),
         NEW b \in Backups, NEW r, R.backup[b].status # "succeeded",
         r.status = "succeeded" =>
           /\ r.sum # 0
           /\ f[b][r.place] = r.sum \/ b \in R.astray
           /\ b \in Own => f[b]["own"] = 1
           /\ b \in w /\ r.place = "imported" => b \in R.astray,
         b \in Own => m[b] # "new"
  PROVE  RowsOK([backup |-> [R.backup EXCEPT ![b] = r], imp |-> R.imp, astray |-> R.astray], f, m, w)
<1> DEFINE new == [R.backup EXCEPT ![b] = r]
<1>1. new[b] = r /\ \A c \in Backups : c # b => new[c] = R.backup[c]
  BY DEF Rows
<1>2. R.imp \in [Imports -> ImportRows] /\ \A i \in Imports : R.imp[i].id \in Backups
  BY DEF Rows, ImportRows
<1> HIDE DEF new
<1>3. RowsOK([backup |-> new, imp |-> R.imp, astray |-> R.astray], f, m, w)
  BY <1>1, <1>2 DEF RowsOK
<1> QED
  BY <1>3 DEF new

LEMMA InitInvariant == Init => IInv
<1> SUFFICES ASSUME Init PROVE IInv
  OBVIOUS
<1>1. TypeOK
  <2>1. backup = [b \in Backups |-> NoBackup] /\ imp = [i \in Imports |-> NoImport]
    BY RowTypes DEF Init
  <2>2. Cur \in Rows
    BY <2>1, RowTypes DEF Init, Cur, Rows
  <2>3. DOMAIN dump = Own /\ \A b \in Own : dump[b] \in Rows
    BY RowTypes DEF Init
  <2>4. file \in [Backups -> [{"own", "imported"} -> 0..2]]
    BY DEF Init
  <2>5. /\ held \subseteq Imports /\ cut \subseteq Backups /\ astray \subseteq Backups /\ faults \in 0..MaxFaults
        /\ maker \in [Own -> {"new", "dump", "write", "complete", "ended"}]
        /\ at \in [Imports -> Places]
    BY DEF Init, Places
  <2> QED
    BY <2>2, <2>3, <2>4, <2>5 DEF TypeOK
<1>2. RowsOK(Empty, file, maker, Moving)
  <2>1. /\ \A b \in Backups : Empty.backup[b] = NoBackup /\ Empty.backup[b].status = "none"
        /\ \A i \in Imports : Empty.imp[i].status = "none"
    BY RowTypes
  <2> QED
    BY <2>1 DEF RowsOK
<1>3. Cur = Empty /\ \A b \in Own : dump[b] = Empty
  BY DEF Init, Cur, Empty
<1>4. \A i \in Imports : WorkOK(i)
  BY DEF Init, WorkOK
<1>5. \A b \in Own : MakerOK(b)
  BY <1>3, RowTypes DEF Init, MakerOK
<1>6. DestinationIsListed
  BY DEF Init, DestinationIsListed
<1> QED
  BY <1>1, <1>2, <1>3, <1>4, <1>5, <1>6 DEF IInv

-----------------------------------------------------------------------------
(* What several steps rely on *)

Files == [Backups -> [{"own", "imported"} -> 0..2]]

LEMMA TypeParts ==
  TypeOK <=>
    /\ Cur \in Rows
    /\ backup \in [Backups -> BackupRows] /\ imp \in [Imports -> ImportRows]
    /\ DOMAIN dump = Own /\ \A b \in Own : dump[b] \in Rows
    /\ file \in Files /\ held \subseteq Imports
    /\ maker \in [Own -> {"new", "dump", "write", "complete", "ended"}]
    /\ at \in [Imports -> Places]
    /\ cut \subseteq Backups /\ astray \subseteq Backups
    /\ faults \in 0..MaxFaults
  BY DEF TypeOK, Cur, Rows, Files

LEMMA TypePartsNext ==
  TypeOK' <=>
    /\ backup' \in [Backups -> BackupRows] /\ imp' \in [Imports -> ImportRows]
    /\ DOMAIN dump' = Own /\ \A b \in Own : dump'[b] \in Rows
    /\ file' \in Files /\ held' \subseteq Imports
    /\ maker' \in [Own -> {"new", "dump", "write", "complete", "ended"}]
    /\ at' \in [Imports -> Places]
    /\ cut' \subseteq Backups /\ astray' \subseteq Backups
    /\ faults' \in 0..MaxFaults
  BY DEF TypeOK, Cur, Rows, Files

LEMMA InvariantNext ==
  ASSUME TypeOK', RowsOK(Cur', file', maker', Moving'),
         \A b \in Own : RowsOK(dump'[b], file', maker', Moving'),
         \A i \in Imports : WorkOK(i)', \A b \in Own : MakerOK(b)', DestinationIsListed'
  PROVE  IInv'
  BY DEF IInv

\* A step that changes what surrounds the rows keeps them, and those in the
\* dumps, in agreement with it.
LEMMA Surroundings ==
  ASSUME IInv,
         \A b \in Own : file[b]["own"] = 1 => file'[b]["own"] = 1,
         \A b \in Foreign : file'[b]["own"] = file[b]["own"],
         \A b \in Backups :
           file'[b]["imported"] = file[b]["imported"] \/ file[b]["imported"] = 0 \/ b \in Moving,
         \A b \in Own : maker'[b] = "new" => maker[b] = "new",
         \A b \in Moving' : b \in Moving \/ file[b]["imported"] = 0
  PROVE  /\ RowsOK(Cur, file', maker', Moving')
         /\ \A b \in Own : RowsOK(dump[b], file', maker', Moving')
<1>1. Cur \in Rows /\ \A b \in Own : dump[b] \in Rows
  BY TypeParts DEF IInv
<1>2. RowsOK(Cur, file', maker', Moving')
  BY <1>1, RowsKept DEF IInv
<1>3. ASSUME NEW b \in Own PROVE RowsOK(dump[b], file', maker', Moving')
  BY <1>1, RowsKept DEF IInv
<1> QED
  BY <1>2, <1>3

\* Only one import at a time is not settled, so the others are not at work.
LEMMA OthersIdle ==
  ASSUME IInv, NEW i \in Imports, NEW j \in Imports, j # i, imp[i].status \in Active \/ ~Busy
  PROVE  at[j] = "idle"
<1>1. at[j] # "idle" => imp[j].status \in Active
  BY TypeParts DEF IInv, WorkOK, Places
<1>2. imp[i].status \in Active /\ imp[j].status \in Active => i = j
  BY DEF IInv, RowsOK, Cur
<1> QED
  BY <1>1, <1>2 DEF Busy

\* An import that moves on brings at most its own backup to those on the move.
LEMMA MovingStep ==
  ASSUME TypeOK, NEW i \in Imports, NEW p, at' = [at EXCEPT ![i] = p],
         \A j \in Imports : j # i => imp'[j] = imp[j]
  PROVE  /\ p \notin {"move", "insert"} => Moving' \subseteq Moving
         /\ Moving' \subseteq Moving \cup {imp'[i].id}
  BY TypeParts DEF Moving

\* What the steps of a request at work on an import have in common.
ImportFrame(i) ==
  /\ imp[i].status \in Active \/ ~Busy
  /\ at'[i] \in Places /\ at' = [at EXCEPT ![i] = at'[i]]
  /\ imp' \in [Imports -> ImportRows] /\ \A j \in Imports : j # i => imp'[j] = imp[j]
  /\ backup' \in [Backups -> BackupRows] /\ \A b \in Backups : backup[b].status = "running" => backup'[b] = backup[b]
  /\ file' \in Files /\ \A b \in Backups : file'[b]["own"] = file[b]["own"]
  /\ \A b \in Backups :
       file'[b]["imported"] = file[b]["imported"] \/ file[b]["imported"] = 0 \/ b \in Moving
  /\ UNCHANGED <<dump, maker, astray>>
  /\ held' \subseteq Imports /\ cut' \subseteq Backups /\ faults' \in 0..MaxFaults
  /\ \A b \in Moving' : b \in Moving \/ file[b]["imported"] = 0

LEMMA ImportStep ==
  ASSUME IInv, NEW i \in Imports, ImportFrame(i),
         RowsOK(Cur', file', maker', Moving'), WorkOK(i)', DestinationIsListed'
  PROVE  IInv'
<1> USE DEF ImportFrame
<1>1. TypeOK'
  BY TypeParts, TypePartsNext DEF IInv
<1>2. \A b \in Own : RowsOK(dump'[b], file', maker', Moving')
  BY Surroundings
<1>3. ASSUME NEW j \in Imports PROVE WorkOK(j)'
  <2>1. CASE j = i
    BY <2>1
  <2>2. CASE j # i
    <3>1. at'[j] = "idle"
      BY <2>2, OthersIdle, TypeParts DEF IInv
    <3> QED
      BY <3>1 DEF WorkOK
  <2> QED
    BY <2>1, <2>2
<1>4. ASSUME NEW b \in Own PROVE MakerOK(b)'
  <2>1. MakerOK(b) /\ maker' = maker /\ dump' = dump /\ file'[b]["own"] = file[b]["own"]
    BY DEF IInv
  <2>2. maker[b] \in {"dump", "write", "complete"} => backup'[b] = backup[b]
    BY <2>1 DEF MakerOK
  <2> QED
    BY <2>1, <2>2 DEF MakerOK
<1> QED
  BY <1>1, <1>2, <1>3, <1>4, InvariantNext

-----------------------------------------------------------------------------
(* createBackup *)

\* What its steps have in common: at most the backup's own row changes, which is
\* not listed before.
BackupFrame(b) ==
  /\ UNCHANGED <<imp, held, at, cut, astray>> /\ faults' \in 0..MaxFaults
  /\ file' \in Files /\ (file[b]["own"] = 1 => file'[b]["own"] = 1)
  /\ \A c \in Backups : file'[c]["imported"] = file[c]["imported"] /\ (c # b => file'[c] = file[c])
  /\ maker' = [maker EXCEPT ![b] = maker'[b]] /\ maker'[b] \in {"dump", "write", "complete", "ended"}
  /\ backup[b].status # "succeeded" /\ backup'[b] \in BackupRows /\ backup' = [backup EXCEPT ![b] = backup'[b]]
  /\ backup'[b].status = "succeeded" =>
       backup'[b].sum = 1 /\ backup'[b].place = "own" /\ file'[b]["own"] = 1
  /\ DOMAIN dump' = Own /\ \A c \in Own : c # b => dump'[c] = dump[c]
  /\ dump'[b] \in {dump[b], Cur}

LEMMA BackupStep ==
  ASSUME IInv, NEW b \in Own, BackupFrame(b), MakerOK(b)'
  PROVE  IInv'
<1> USE DEF BackupFrame
<1>1. TypeOK /\ b \in Backups /\ Moving' = Moving /\ Cur \in Rows
  BY TypeParts DEF IInv, Moving
<1>2. TypeOK'
  <2>1. backup' \in [Backups -> BackupRows] /\ maker' \in [Own -> {"new", "dump", "write", "complete", "ended"}]
    BY <1>1, TypeParts
  <2>2. \A c \in Own : dump'[c] \in Rows
    BY <1>1, TypeParts
  <2>3. imp' \in [Imports -> ImportRows] /\ at' \in [Imports -> Places] /\ held' \subseteq Imports
        /\ cut' \subseteq Backups /\ astray' \subseteq Backups
    BY <1>1, TypeParts
  <2>4. file' \in Files /\ DOMAIN dump' = Own /\ faults' \in 0..MaxFaults
    OBVIOUS
  <2> QED
    BY <2>1, <2>2, <2>3, <2>4, TypePartsNext
<1>3. /\ RowsOK(Cur, file', maker', Moving')
      /\ \A c \in Own : RowsOK(dump[c], file', maker', Moving')
  <2>1. ASSUME NEW c \in Own, file[c]["own"] = 1 PROVE file'[c]["own"] = 1
    BY <2>1
  <2>2. \A c \in Foreign : file'[c]["own"] = file[c]["own"]
    OBVIOUS
  <2>3. \A c \in Own : maker'[c] = "new" => maker[c] = "new"
    BY <1>1, TypeParts
  <2> QED
    BY <1>1, <2>1, <2>2, <2>3, Surroundings
<1>4. RowsOK(Cur', file', maker', Moving')
  <2>1. RowsOK([backup |-> [Cur.backup EXCEPT ![b] = backup'[b]], imp |-> Cur.imp, astray |-> Cur.astray], file', maker', Moving')
    <3>1. Cur.backup[b].status # "succeeded" /\ maker'[b] # "new"
      BY DEF Cur
    <3>2. backup'[b].status = "succeeded" =>
            /\ backup'[b].sum # 0
            /\ file'[b][backup'[b].place] = backup'[b].sum \/ b \in Cur.astray
            /\ b \in Own => file'[b]["own"] = 1
            /\ b \in Moving' /\ backup'[b].place = "imported" => b \in Cur.astray
      OBVIOUS
    <3> QED
      BY <1>1, <1>3, <3>1, <3>2, BackupRowStep
  <2>2. Cur' = [backup |-> [Cur.backup EXCEPT ![b] = backup'[b]], imp |-> Cur.imp, astray |-> Cur.astray]
    BY DEF Cur
  <2> QED
    BY <2>1, <2>2
<1>5. \A c \in Own : RowsOK(dump'[c], file', maker', Moving')
  BY <1>3
<1>6. ASSUME NEW c \in Backups, c # b PROVE backup'[c] = backup[c]
  BY <1>1, <1>6, TypeParts
<1>7. ASSUME NEW i \in Imports PROVE WorkOK(i)'
  <2>1. imp[i].id \in Backups
    BY <1>1, TypeParts DEF ImportRows
  <2> QED
    BY <1>6, <2>1 DEF IInv, WorkOK
<1>8. ASSUME NEW c \in Own PROVE MakerOK(c)'
  <2>1. CASE c = b
    BY <2>1
  <2>2. CASE c # b
    <3>1. maker'[c] = maker[c] /\ backup'[c] = backup[c] /\ file'[c] = file[c] /\ dump'[c] = dump[c]
      BY <1>1, <1>6, <2>2, TypeParts
    <3> QED
      BY <3>1 DEF IInv, MakerOK
  <2> QED
    BY <2>1, <2>2
<1>9. DestinationIsListed'
  BY <1>6 DEF IInv, DestinationIsListed
<1> QED
  BY <1>2, <1>4, <1>5, <1>7, <1>8, <1>9, InvariantNext

LEMMA MakerStep ==
  ASSUME IInv, NEW b \in Own,
         CreateBackup(b) \/ Dump(b) \/ WriteArtifact(b) \/ CompleteBackup(b) \/ BackupFails(b)
  PROVE  IInv'
<1> USE DEF MakerOK
<1>1. /\ TypeOK /\ b \in Backups /\ MakerOK(b) /\ backup[b] \in BackupRows /\ backup \in [Backups -> BackupRows]
      /\ maker \in [Own -> {"new", "dump", "write", "complete", "ended"}] /\ file \in Files
      /\ DOMAIN dump = Own /\ faults \in 0..MaxFaults
  BY TypeParts DEF IInv
<1>2. maker[b] = "new" => backup[b] = NoBackup
  BY DEF IInv, RowsOK, Cur
<1>3. CASE CreateBackup(b)
  <2>1. /\ backup' = [backup EXCEPT ![b] = Requested] /\ maker' = [maker EXCEPT ![b] = "dump"]
        /\ UNCHANGED <<imp, dump, files, at, cut, astray, faults>> /\ maker[b] = "new"
    BY <1>3 DEF CreateBackup
  <2>2. Requested = [status |-> "running", place |-> "own", sum |-> 0] /\ Requested \in BackupRows
    BY DEF Requested, NoBackup, BackupRows
  <2>3. BackupFrame(b)
    BY <1>1, <1>2, <2>1, <2>2, RowTypes DEF BackupFrame, files
  <2>4. MakerOK(b)'
    BY <1>1, <2>1, <2>2 DEF files
  <2> QED
    BY <2>3, <2>4, BackupStep
<1>4. CASE Dump(b)
  <2>1. /\ maker' = [maker EXCEPT ![b] = "write"] /\ dump' = [dump EXCEPT ![b] = Cur]
        /\ UNCHANGED <<rows, files, at, cut, astray, faults>> /\ maker[b] = "dump"
    BY <1>4 DEF Dump, Cur
  <2>2. dump'[b] = Cur /\ \A c \in Own : c # b => dump'[c] = dump[c]
    BY <1>1, <2>1
  <2>3. BackupFrame(b)
    BY <1>1, <2>1, <2>2 DEF BackupFrame, files, rows
  <2>4. MakerOK(b)'
    BY <1>1, <2>1, <2>2 DEF Cur, files, rows
  <2> QED
    BY <2>3, <2>4, BackupStep
<1>5. CASE WriteArtifact(b)
  <2>1. /\ maker' = [maker EXCEPT ![b] = "complete"] /\ file' = [file EXCEPT ![b]["own"] = 1]
        /\ UNCHANGED <<rows, dump, held, at, cut, astray, faults>> /\ maker[b] = "write"
    BY <1>5 DEF WriteArtifact
  <2>2. /\ file' \in Files /\ file'[b]["own"] = 1 /\ file'[b]["imported"] = file[b]["imported"]
        /\ \A c \in Backups : c # b => file'[c] = file[c]
    BY <1>1, <2>1 DEF Files
  <2>3. BackupFrame(b)
    BY <1>1, <2>1, <2>2 DEF BackupFrame, rows
  <2>4. MakerOK(b)'
    BY <1>1, <2>1, <2>2 DEF rows
  <2> QED
    BY <2>3, <2>4, BackupStep
<1>6. CASE CompleteBackup(b)
  <2>1. /\ maker' = [maker EXCEPT ![b] = "ended"]
        /\ backup' = [backup EXCEPT ![b] = [@ EXCEPT !.status = "succeeded", !.sum = 1]]
        /\ UNCHANGED <<imp, dump, files, at, cut, astray, faults>> /\ maker[b] = "complete"
    BY <1>6 DEF CompleteBackup
  <2>2. /\ backup'[b].status = "succeeded" /\ backup'[b].place = "own" /\ backup'[b].sum = 1
        /\ backup'[b] \in BackupRows /\ backup' = [backup EXCEPT ![b] = backup'[b]]
    <3>1. backup[b] = [status |-> "running", place |-> "own", sum |-> 0]
      BY <1>1, <2>1
    <3>2. /\ backup'[b] = [backup[b] EXCEPT !.status = "succeeded", !.sum = 1]
          /\ backup' = [backup EXCEPT ![b] = backup'[b]]
      BY <1>1, <2>1
    <3>3. backup[b].place = "own" /\ 1 \in 0..2
      BY <3>1
    <3> QED
      BY <1>1, <3>2, <3>3 DEF BackupRows
  <2>3. BackupFrame(b)
    BY <1>1, <2>1, <2>2 DEF BackupFrame, files
  <2>4. MakerOK(b)'
    BY <1>1, <2>1, <2>2 DEF files
  <2> QED
    BY <2>3, <2>4, BackupStep
<1>7. CASE BackupFails(b)
  <2>1. /\ maker' = [maker EXCEPT ![b] = "ended"] /\ backup' \in {backup, [backup EXCEPT ![b].status = "failed"]}
        /\ UNCHANGED <<imp, dump, files, at, cut, astray>> /\ faults' \in 0..MaxFaults
        /\ maker[b] \in {"dump", "write", "complete"}
    BY <1>1, <1>7 DEF BackupFails, Fault
  <2>2. backup'[b].status # "succeeded" /\ backup'[b] \in BackupRows /\ backup' = [backup EXCEPT ![b] = backup'[b]]
    <3>1. CASE backup' = backup
      BY <1>1, <2>1, <3>1
    <3>2. CASE backup' = [backup EXCEPT ![b].status = "failed"]
      <4>1. backup'[b] = [backup[b] EXCEPT !.status = "failed"]
            /\ backup' = [backup EXCEPT ![b] = backup'[b]]
        BY <1>1, <3>2
      <4> QED
        BY <1>1, <4>1 DEF BackupRows
    <3> QED
      BY <2>1, <3>1, <3>2
  <2>3. BackupFrame(b)
    BY <1>1, <2>1, <2>2 DEF BackupFrame, files
  <2>4. MakerOK(b)'
    BY <1>1, <2>1 DEF files
  <2> QED
    BY <2>3, <2>4, BackupStep
<1> QED
  BY <1>3, <1>4, <1>5, <1>6, <1>7

-----------------------------------------------------------------------------
(* Imports *)

\* A step that gives the import's row a status, or none, and leaves every other
\* row and every file in place.
StatusFrame(i, s, p) ==
  /\ imp[i].status \in Active /\ imp' = [imp EXCEPT ![i].status = s]
  /\ s \in {"imported", "rejected"} \cup Active
  /\ s = "imported" => backup[imp[i].id].status = "succeeded" /\ backup[imp[i].id].sum = imp[i].sum
  /\ at' = [at EXCEPT ![i] = p] /\ p \in {"idle", "stored", "look", "finish", "fail"}
  /\ p = "stored" => s = "uploading"
  /\ p \in {"look", "finish", "fail"} => s = "validating"
  /\ p = "finish" => backup[imp[i].id].status = "succeeded" /\ backup[imp[i].id].sum = imp[i].sum
  /\ UNCHANGED <<backup, dump, file, maker, astray>>
  /\ held' \subseteq Imports /\ faults' \in 0..MaxFaults
  /\ cut \subseteq cut' /\ cut' \subseteq Backups
  /\ at[i] = "insert" => imp[i].id \in cut'

LEMMA StatusStep ==
  ASSUME IInv, NEW i \in Imports, NEW s, NEW p, StatusFrame(i, s, p)
  PROVE  IInv'
<1> USE DEF StatusFrame
<1>1. /\ TypeOK /\ Cur \in Rows /\ imp \in [Imports -> ImportRows] /\ at \in [Imports -> Places]
      /\ backup \in [Backups -> BackupRows] /\ file \in Files
  BY TypeParts DEF IInv
<1>2. /\ imp'[i] = [imp[i] EXCEPT !.status = s] /\ \A j \in Imports : j # i => imp'[j] = imp[j]
      /\ imp[i] \in ImportRows
  BY <1>1
<1>3. /\ imp'[i] \in ImportRows /\ imp'[i].id = imp[i].id /\ imp'[i].sum = imp[i].sum /\ imp'[i].status = s
  BY <1>2 DEF ImportRows
<1>4. imp' \in [Imports -> ImportRows] /\ \A j \in Imports : imp'[j].id = imp[j].id
  BY <1>1, <1>2, <1>3
<1>5. Moving' \subseteq Moving
  <2>1. TypeOK /\ at' = [at EXCEPT ![i] = p] /\ \A j \in Imports : j # i => imp'[j] = imp[j]
    BY <1>1, <1>2
  <2>2. p \notin {"move", "insert"}
    OBVIOUS
  <2> QED
    BY <2>1, <2>2, MovingStep
<1>6. at'[i] = p /\ \A j \in Imports : j # i => at'[j] = at[j]
  BY <1>1
<1>7. ImportFrame(i)
  BY <1>1, <1>2, <1>4, <1>5, <1>6 DEF ImportFrame, Places
<1>8. RowsOK(Cur', file', maker', Moving')
  <2>1. RowsOK(Cur, file', maker', Moving')
    BY <1>5, Surroundings
  <2>2. RowsOK([backup |-> Cur.backup, imp |-> [Cur.imp EXCEPT ![i].status = s], astray |-> Cur.astray], file', maker', Moving')
    <3>1. /\ s \in Active => Cur.imp[i].status \in Active
          /\ s = "imported" => /\ Cur.backup[Cur.imp[i].id].status = "succeeded"
                               /\ Cur.backup[Cur.imp[i].id].sum = Cur.imp[i].sum
          /\ Cur.imp[i].status # "none"
      BY DEF Cur
    <3> QED
      BY <1>1, <2>1, <3>1, ImportRowStep
  <2>3. Cur' = [backup |-> Cur.backup, imp |-> [Cur.imp EXCEPT ![i].status = s], astray |-> Cur.astray]
    BY DEF Cur
  <2> QED
    BY <2>2, <2>3
<1>9. WorkOK(i)'
  BY <1>3, <1>6 DEF WorkOK
<1>10. DestinationIsListed'
  BY <1>4, <1>6 DEF IInv, DestinationIsListed
<1> QED
  BY <1>7, <1>8, <1>9, <1>10, ImportStep

LEMMA StartUploadStep ==
  ASSUME IInv, NEW i \in Imports, StartUpload(i)
  PROVE  IInv'
<1>1. /\ TypeOK /\ Cur \in Rows /\ imp \in [Imports -> ImportRows] /\ at \in [Imports -> Places]
      /\ backup \in [Backups -> BackupRows] /\ file \in Files /\ faults \in 0..MaxFaults
      /\ held \subseteq Imports /\ cut \subseteq Backups
  BY TypeParts DEF IInv
<1>2. PICK a \in Obtainable : imp' = [imp EXCEPT ![i] = Upload(a)]
  BY DEF StartUpload
<1>3. /\ ~Busy /\ imp[i].status = "none" /\ at[i] = "idle" /\ at' = [at EXCEPT ![i] = "upload"]
      /\ UNCHANGED <<backup, dump, file, held, maker, cut, astray, faults>>
  BY DEF StartUpload, files
<1>4. a[1] \in Backups /\ a[2] \in {1, 2} /\ (a[1] \in Own => file[a[1]]["own"] = 1)
  BY DEF Obtainable
<1>5. Upload(a) \in ImportRows /\ Upload(a).status = "uploading" /\ Upload(a).id = a[1]
  BY <1>4 DEF Upload, ImportRows
<1>6. /\ imp'[i] = Upload(a) /\ \A j \in Imports : j # i => imp'[j] = imp[j]
      /\ imp' \in [Imports -> ImportRows]
  BY <1>1, <1>2, <1>5
<1>7. Moving' \subseteq Moving
  <2>1. TypeOK /\ at' = [at EXCEPT ![i] = "upload"] /\ \A j \in Imports : j # i => imp'[j] = imp[j]
    BY <1>1, <1>3, <1>6
  <2>2. "upload" \notin {"move", "insert"}
    OBVIOUS
  <2> QED
    BY <2>1, <2>2, MovingStep
<1>8. at'[i] = "upload" /\ \A j \in Imports : j # i => at'[j] = at[j]
  BY <1>1, <1>3
<1>9. ImportFrame(i)
  BY <1>1, <1>3, <1>6, <1>7, <1>8 DEF ImportFrame, Places
<1>10. RowsOK(Cur', file', maker', Moving')
  <2>1. RowsOK(Cur, file', maker', Moving')
    BY <1>3, <1>7, Surroundings
  <2>2. \A j \in Imports : imp[j].status \notin Active
    BY <1>3 DEF Busy
  <2> QED
    BY <1>3, <1>4, <1>5, <1>6, <2>1, <2>2 DEF RowsOK, Cur
<1>11. WorkOK(i)'
  BY <1>5, <1>6, <1>8 DEF WorkOK
<1>12. DestinationIsListed'
  BY <1>3, <1>6, <1>8 DEF IInv, DestinationIsListed
<1> QED
  BY <1>9, <1>10, <1>11, <1>12, ImportStep

\* Every other step of a request that leaves files alone.
LEMMA RequestStep ==
  ASSUME IInv, NEW i \in Imports,
         \/ StoreUpload(i) \/ RecordUpload(i) \/ UploadFails(i) \/ Claim(i)
         \/ Unreadable(i) \/ ListFails(i) \/ FinishImport(i) \/ RejectImport(i)
  PROVE  IInv'
<1> USE DEF Goto, Settle
<1> DEFINE status == imp[i].status
<1>1. /\ held \subseteq Imports /\ cut \subseteq Backups /\ faults \in 0..MaxFaults /\ WorkOK(i)
      /\ imp[i].id \in Backups /\ imp \in [Imports -> ImportRows]
  BY TypeParts DEF IInv, ImportRows
<1>2. imp = [imp EXCEPT ![i].status = status]
  <2>1. imp[i] = [imp[i] EXCEPT !.status = imp[i].status]
    BY <1>1 DEF ImportRows
  <2> QED
    BY <1>1, <2>1
<1> USE <1>1
<1>3. CASE StoreUpload(i)
  <2>1. StatusFrame(i, status, "stored")
    BY <1>2, <1>3 DEF StoreUpload, StatusFrame, WorkOK, rows
  <2> QED
    BY <2>1, StatusStep
<1>4. CASE RecordUpload(i)
  <2>1. StatusFrame(i, "uploaded", "idle")
    BY <1>4 DEF RecordUpload, StatusFrame, WorkOK, files
  <2> QED
    BY <2>1, StatusStep
<1>5. CASE UploadFails(i)
  <2>1. StatusFrame(i, "rejected", "idle") \/ StatusFrame(i, status, "idle")
    BY <1>2, <1>5 DEF UploadFails, Fault, StatusFrame, WorkOK
  <2> QED
    BY <2>1, StatusStep
<1>6. CASE Claim(i)
  <2>1. StatusFrame(i, "validating", "look")
    BY <1>6 DEF Claim, Claimable, StatusFrame, files
  <2> QED
    BY <2>1, StatusStep
<1>7. CASE Unreadable(i)
  <2>1. StatusFrame(i, status, "fail")
    BY <1>2, <1>7 DEF Unreadable, StatusFrame, WorkOK, rows, files
  <2> QED
    BY <2>1, StatusStep
<1>8. CASE ListFails(i)
  <2>1. StatusFrame(i, status, "fail")
    BY <1>2, <1>8 DEF ListFails, Fault, StatusFrame, WorkOK, rows, files
  <2> QED
    BY <2>1, StatusStep
<1>9. CASE FinishImport(i)
  <2>1. StatusFrame(i, "imported", "idle") \/ StatusFrame(i, status, "fail")
    BY <1>2, <1>9 DEF FinishImport, Fault, StatusFrame, WorkOK, files
  <2> QED
    BY <2>1, StatusStep
<1>10. CASE RejectImport(i)
  <2>1. StatusFrame(i, "rejected", "idle") \/ StatusFrame(i, status, "idle")
    BY <1>2, <1>10 DEF RejectImport, Fault, StatusFrame, WorkOK
  <2> QED
    BY <2>1, StatusStep
<1> QED
  BY <1>3, <1>4, <1>5, <1>6, <1>7, <1>8, <1>9, <1>10

\* The import's row and surroundings, before a step that touches the destination.
LEMMA AtWork ==
  ASSUME IInv, NEW i \in Imports, at[i] \in {"look", "move", "insert"}
  PROVE  /\ TypeOK /\ Cur \in Rows /\ imp \in [Imports -> ImportRows] /\ at \in [Imports -> Places]
         /\ backup \in [Backups -> BackupRows] /\ file \in Files /\ faults \in 0..MaxFaults
         /\ held \subseteq Imports /\ cut \subseteq Backups /\ astray \subseteq Backups
         /\ WorkOK(i) /\ imp[i].status \in Active
         /\ imp[i].id \in Backups /\ imp[i].sum \in 1..2
         /\ imp = [imp EXCEPT ![i].status = imp[i].status]
         /\ at[i] # "look" => imp[i].id \in Moving
<1>1. imp[i] \in ImportRows /\ WorkOK(i) /\ imp \in [Imports -> ImportRows]
  BY TypeParts DEF IInv
<1>2. imp[i] = [imp[i] EXCEPT !.status = imp[i].status]
  BY <1>1 DEF ImportRows
<1>3. imp = [imp EXCEPT ![i].status = imp[i].status]
  BY <1>1, <1>2
<1>4. imp[i].status \in Active /\ imp[i].id \in Backups /\ imp[i].sum \in 1..2
  BY <1>1 DEF WorkOK, ImportRows
<1>5. at[i] # "look" => imp[i].id \in Moving
  BY DEF Moving
<1> QED
  BY <1>1, <1>3, <1>4, <1>5, TypeParts DEF IInv

\* Writing a destination changes nothing else.
LEMMA PutStep ==
  ASSUME file \in Files, NEW b \in Backups, NEW v \in 0..2, file' = [file EXCEPT ![b]["imported"] = v]
  PROVE  /\ file' \in Files /\ file'[b]["imported"] = v /\ file'[b]["own"] = file[b]["own"]
         /\ \A c \in Backups : c # b => file'[c] = file[c]
  BY DEF Files

\* An import goes on to its destination only while that is empty and its backup
\* is not listed.
LEMMA LookStep ==
  ASSUME IInv, NEW i \in Imports, Look(i)
  PROVE  IInv'
<1> DEFINE b == imp[i].id
<1>1. at[i] = "look" /\ UNCHANGED <<rows, dump, file, maker, cut, astray, faults>> /\ held' \subseteq held
  BY DEF Look
<1> USE <1>1, AtWork
<1>2. CASE Goto(i, "finish") /\ Listed(b) /\ backup[b].sum = imp[i].sum
  <2>1. StatusFrame(i, imp[i].status, "finish")
    BY <1>2 DEF Goto, StatusFrame, WorkOK, Listed, rows
  <2> QED
    BY <2>1, StatusStep
<1>3. CASE Goto(i, "fail")
  <2>1. StatusFrame(i, imp[i].status, "fail")
    BY <1>3 DEF Goto, StatusFrame, WorkOK, rows
  <2> QED
    BY <2>1, StatusStep
<1>4. CASE Goto(i, "move") /\ file[b]["imported"] = 0
  <2>1. /\ at' = [at EXCEPT ![i] = "move"] /\ imp' = imp /\ backup' = backup /\ file' = file
        /\ UNCHANGED <<dump, maker, astray, cut, faults>>
    BY <1>4 DEF Goto, rows
  <2>2. at'[i] = "move" /\ \A j \in Imports : j # i => at'[j] = at[j]
    BY <2>1
  <2>3. Moving' \subseteq Moving \cup {b}
    BY <2>1, MovingStep
  <2>4. ImportFrame(i)
    BY <1>4, <2>1, <2>2, <2>3 DEF ImportFrame, Places
  <2>5. RowsOK(Cur, file', maker', Moving')
    BY <1>4, <2>1, <2>3, Surroundings
  <2>6. Cur' = Cur
    BY <2>1 DEF Cur
  <2>7. WorkOK(i)'
    BY <1>4, <2>1, <2>2 DEF WorkOK
  <2>8. DestinationIsListed'
    BY <2>1, <2>2 DEF IInv, DestinationIsListed
  <2> QED
    BY <2>4, <2>5, <2>6, <2>7, <2>8, ImportStep
<1> QED
  BY <1>2, <1>3, <1>4 DEF Look, Occupied

\* The artifact comes to an empty place.
LEMMA MoveStep ==
  ASSUME IInv, NEW i \in Imports, MoveImport(i)
  PROVE  IInv'
<1> DEFINE b == imp[i].id
<1>1. /\ at[i] = "move" /\ at' = [at EXCEPT ![i] = "insert"] /\ held' \subseteq held
      /\ file' = [file EXCEPT ![b]["imported"] = imp[i].sum]
      /\ imp' = imp /\ backup' = backup /\ UNCHANGED <<dump, maker, cut, astray, faults>>
  BY DEF MoveImport, Goto, rows
<1> USE <1>1, AtWork
<1>2. /\ file' \in Files /\ file'[b]["imported"] = imp[i].sum /\ file'[b]["own"] = file[b]["own"]
      /\ \A c \in Backups : c # b => file'[c] = file[c]
  <2>1. file \in Files /\ b \in Backups /\ imp[i].sum \in 0..2
    OBVIOUS
  <2> QED
    BY <2>1, PutStep
<1>3. file[b]["imported"] = 0 /\ b \in Moving
  BY DEF WorkOK
<1>4. at'[i] = "insert" /\ \A j \in Imports : j # i => at'[j] = at[j]
  OBVIOUS
<1>5. Moving' \subseteq Moving
  BY <1>3, MovingStep
<1>6. \A c \in Backups : file'[c]["own"] = file[c]["own"]
  BY <1>2
<1>7. \A c \in Backups :
        file'[c]["imported"] = file[c]["imported"] \/ file[c]["imported"] = 0 \/ c \in Moving
  BY <1>2, <1>3
<1>8. ImportFrame(i)
  BY <1>2, <1>4, <1>5, <1>6, <1>7 DEF ImportFrame, Places
<1>9. RowsOK(Cur', file', maker', Moving')
  <2>1. RowsOK(Cur, file', maker', Moving')
    BY <1>5, <1>6, <1>7, Surroundings
  <2> QED
    BY <2>1 DEF Cur
<1>10. WorkOK(i)'
  BY <1>2, <1>4 DEF WorkOK
<1>11. DestinationIsListed'
  BY <1>2, <1>4 DEF IInv, DestinationIsListed
<1> QED
  BY <1>8, <1>9, <1>10, <1>11, ImportStep

\* A backup that nobody knows is listed with the artifact that was just put in
\* place; the destination is emptied only of what no row refers to.
LEMMA ListStep ==
  ASSUME IInv, NEW i \in Imports, ListBackup(i)
  PROVE  IInv'
<1> DEFINE b == imp[i].id
           verdict == Verdict(b, imp[i].sum)
           r == [status |-> "succeeded", place |-> "imported", sum |-> imp[i].sum]
<1>1. /\ at[i] = "insert" /\ imp' = imp /\ UNCHANGED <<dump, held, maker, cut, astray, faults>>
      /\ at' = [at EXCEPT ![i] = IF verdict = "created" \/ (verdict = "idempotent" /\ Listed(b))
                                 THEN "finish" ELSE "fail"]
  BY DEF ListBackup, Goto
<1> USE <1>1, AtWork
<1>2. /\ at'[i] = (IF verdict = "created" \/ (verdict = "idempotent" /\ Listed(b)) THEN "finish" ELSE "fail")
      /\ \A j \in Imports : j # i => at'[j] = at[j]
  OBVIOUS
<1>3. file[b]["imported"] = imp[i].sum /\ b \in Moving /\ Moving' \subseteq Moving
  <2>1. file[b]["imported"] = imp[i].sum /\ b \in Moving
    BY DEF WorkOK
  <2>2. PICK p \in {"finish", "fail"} : at' = [at EXCEPT ![i] = p]
    OBVIOUS
  <2>3. Moving' \subseteq Moving
    BY <2>2, MovingStep
  <2> QED
    BY <2>1, <2>3
<1>4. CASE verdict = "created"
  <2>1. backup' = [backup EXCEPT ![b] = r] /\ file' = file /\ backup[b].status = "none"
    BY <1>4 DEF ListBackup, Kept, Verdict
  <2>2. /\ r \in BackupRows /\ r.status = "succeeded" /\ r.place = "imported" /\ r.sum = imp[i].sum
        /\ r.sum # 0
    BY DEF BackupRows
  <2>3. backup' \in [Backups -> BackupRows] /\ backup'[b] = r /\ \A c \in Backups : c # b => backup'[c] = backup[c]
    BY <2>1, <2>2
  <2>4. ImportFrame(i)
    BY <1>2, <1>3, <2>1, <2>3 DEF ImportFrame, Places
  <2>5. RowsOK(Cur, file', maker', Moving')
    BY <1>3, <2>1, Surroundings
  <2>6. b \in Own => file[b]["own"] = 1 /\ maker[b] # "new"
    <3>1. b \in Own => file[b]["own"] = 1
      BY DEF IInv, RowsOK, Cur
    <3> QED
      BY <3>1 DEF IInv, MakerOK
  <2>7. b \notin Moving'
    <3>1. \A j \in Imports : j # i => at[j] = "idle"
      BY OthersIdle
    <3> QED
      BY <1>2, <1>4, <3>1 DEF Moving
  <2>8. RowsOK([backup |-> [Cur.backup EXCEPT ![b] = r], imp |-> Cur.imp, astray |-> Cur.astray], file', maker', Moving')
    <3>1. Cur.backup[b].status # "succeeded"
      BY <2>1 DEF Cur
    <3>2. r.status = "succeeded" =>
            /\ r.sum # 0
            /\ file'[b][r.place] = r.sum \/ b \in Cur.astray
            /\ b \in Own => file'[b]["own"] = 1
            /\ b \in Moving' /\ r.place = "imported" => b \in Cur.astray
      BY <1>3, <2>1, <2>2, <2>6, <2>7
    <3>3. b \in Own => maker'[b] # "new"
      BY <2>6
    <3> HIDE DEF r
    <3> QED
      BY <2>5, <3>1, <3>2, <3>3, BackupRowStep
  <2>9. Cur' = [backup |-> [Cur.backup EXCEPT ![b] = r], imp |-> Cur.imp, astray |-> Cur.astray]
    BY <2>1 DEF Cur
  <2>10. WorkOK(i)'
    BY <1>2, <1>4, <2>2, <2>3 DEF WorkOK
  <2>11. DestinationIsListed'
    BY <1>2, <2>1, <2>2, <2>3 DEF IInv, DestinationIsListed
  <2> QED
    BY <2>4, <2>8, <2>9, <2>10, <2>11, ImportStep
<1>5. CASE verdict # "created"
  <2>1. backup' = backup /\ file' = [file EXCEPT ![b]["imported"] = 0]
    BY <1>5 DEF ListBackup, Kept
  <2>2. /\ file' \in Files /\ file'[b]["imported"] = 0 /\ file'[b]["own"] = file[b]["own"]
        /\ \A c \in Backups : c # b => file'[c] = file[c]
    <3>1. file \in Files /\ b \in Backups /\ 0 \in 0..2
      OBVIOUS
    <3> QED
      BY <2>1, <3>1, PutStep
  <2>3. \A c \in Backups : file'[c]["own"] = file[c]["own"]
    BY <2>2
  <2>4. \A c \in Backups :
          file'[c]["imported"] = file[c]["imported"] \/ file[c]["imported"] = 0 \/ c \in Moving
    BY <1>3, <2>2
  <2>5. ImportFrame(i)
    BY <1>2, <1>3, <2>1, <2>2, <2>3, <2>4 DEF ImportFrame, Places
  <2>6. RowsOK(Cur', file', maker', Moving')
    <3>1. RowsOK(Cur, file', maker', Moving')
      BY <1>3, <2>3, <2>4, Surroundings
    <3> QED
      BY <2>1, <3>1 DEF Cur
  <2>7. WorkOK(i)'
    BY <1>2, <1>5, <2>1 DEF WorkOK, Verdict, Listed
  <2>8. DestinationIsListed'
    BY <1>2, <2>1, <2>2 DEF IInv, DestinationIsListed
  <2> QED
    BY <2>5, <2>6, <2>7, <2>8, ImportStep
<1> QED
  BY <1>4, <1>5

-----------------------------------------------------------------------------
(* Crashes and restores *)

\* No rows agree with everything.
LEMMA NoRows ==
  ASSUME NEW f, NEW m, NEW w
  PROVE  RowsOK(Empty, f, m, w)
<1>1. /\ \A b \in Backups : Empty.backup[b] = NoBackup /\ Empty.backup[b].status = "none"
      /\ \A i \in Imports : Empty.imp[i].status = "none"
  BY RowTypes
<1> QED
  BY <1>1 DEF RowsOK

\* Imports that are not settled are rejected.
LEMMA RejectingStep ==
  ASSUME NEW R \in Rows, NEW f, NEW m, NEW w, RowsOK(R, f, m, w),
         NEW stale, \A i \in stale : R.imp[i].status \in Active,
         NEW new, new = [i \in Imports |-> IF i \in stale THEN [R.imp[i] EXCEPT !.status = "rejected"] ELSE R.imp[i]]
  PROVE  new \in [Imports -> ImportRows] /\ RowsOK([backup |-> R.backup, imp |-> new, astray |-> R.astray], f, m, w)
<1>1. \A i \in Imports : R.imp[i] \in ImportRows
  BY DEF Rows
<1>2. ASSUME NEW i \in Imports
      PROVE  /\ new[i] \in ImportRows /\ new[i].id = R.imp[i].id /\ new[i].sum = R.imp[i].sum
             /\ IF i \in stale THEN new[i].status = "rejected" ELSE new[i].status = R.imp[i].status
  BY <1>1 DEF ImportRows
<1>3. new \in [Imports -> ImportRows]
  BY <1>2
<1>4. RowsOK([backup |-> R.backup, imp |-> new, astray |-> R.astray], f, m, w)
  <2> HIDE DEF Active
  <2>1. \A i \in Imports : new[i].status \in Active => R.imp[i].status \in Active
    BY <1>2 DEF Active
  <2>2. \A i \in Imports : new[i].status = "imported" => R.imp[i].status = "imported"
    BY <1>2
  <2>3. \A i \in Imports : new[i].status # "none" => R.imp[i].status # "none"
    BY <1>2 DEF Active
  <2> QED
    BY <1>2, <2>1, <2>2, <2>3 DEF RowsOK
<1> QED
  BY <1>3, <1>4

\* On the way up no request is at work, whatever the rows are.
LEMMA StartUpStep ==
  ASSUME IInv, NEW R \in Rows, RowsOK(R, file', maker', Moving'), backup' = R.backup, astray' = R.astray,
         StartUp(R.imp), UNCHANGED <<dump, file>>, cut' \subseteq Backups, faults' \in 0..MaxFaults,
         DestinationIsListed'
  PROVE  IInv'
<1>1. /\ TypeOK /\ maker \in [Own -> {"new", "dump", "write", "complete", "ended"}]
      /\ held \subseteq Imports /\ file \in Files /\ DOMAIN dump = Own /\ \A b \in Own : dump[b] \in Rows
  BY TypeParts DEF IInv
<1>2. /\ at' = [i \in Imports |-> "idle"] /\ Moving' = {}
      /\ maker' = [b \in Own |-> IF maker[b] = "new" THEN "new" ELSE "ended"]
  BY DEF StartUp, Moving
<1>3. PICK old \in BOOLEAN :
        LET stale == Stale(R.imp, old) IN
        /\ imp' = [i \in Imports |-> IF i \in stale THEN [R.imp[i] EXCEPT !.status = "rejected"] ELSE R.imp[i]]
        /\ held' = held \ stale
  BY DEF StartUp
<1> DEFINE stale == Stale(R.imp, old)
<1>4. \A i \in stale : R.imp[i].status \in Active
  BY DEF Stale
<1>5. imp' \in [Imports -> ImportRows] /\ RowsOK(Cur', file', maker', Moving')
  <2> HIDE DEF stale
  <2>1. imp' = [i \in Imports |-> IF i \in stale THEN [R.imp[i] EXCEPT !.status = "rejected"] ELSE R.imp[i]]
    BY <1>3 DEF stale
  <2>2. imp' \in [Imports -> ImportRows] /\ RowsOK([backup |-> R.backup, imp |-> imp', astray |-> R.astray], file', maker', Moving')
    BY <1>4, <2>1, RejectingStep
  <2> QED
    BY <2>2 DEF Cur
<1>6. TypeOK'
  <2>1. held' \subseteq Imports
    BY <1>1, <1>3
  <2>2. backup' \in [Backups -> BackupRows] /\ astray' \subseteq Backups
    BY DEF Rows
  <2>3. maker' \in [Own -> {"new", "dump", "write", "complete", "ended"}] /\ at' \in [Imports -> Places]
    BY <1>2 DEF Places
  <2> QED
    BY <1>1, <1>5, <2>1, <2>2, <2>3, TypePartsNext
<1>7. \A b \in Own : RowsOK(dump'[b], file', maker', Moving')
  BY <1>2, Surroundings
<1>8. \A i \in Imports : WorkOK(i)'
  BY <1>2 DEF WorkOK
<1>9. ASSUME NEW b \in Own PROVE MakerOK(b)'
  <2>1. MakerOK(b) /\ maker'[b] = (IF maker[b] = "new" THEN "new" ELSE "ended")
    BY <1>2 DEF IInv
  <2> QED
    BY <2>1 DEF MakerOK
<1> QED
  BY <1>5, <1>6, <1>7, <1>8, <1>9, InvariantNext

LEMMA CrashStep ==
  ASSUME IInv, Crash
  PROVE  IInv'
<1>1. /\ TypeOK /\ Cur \in Rows /\ imp \in [Imports -> ImportRows] /\ cut \subseteq Backups
      /\ astray \subseteq Backups /\ faults \in 0..MaxFaults
  BY TypeParts DEF IInv
<1>2. /\ StartUp(Cur.imp) /\ UNCHANGED <<backup, dump, file, astray>> /\ faults' \in 0..MaxFaults
      /\ cut' = cut \cup {imp[i].id : i \in {j \in Imports : at[j] = "insert"}}
  BY <1>1 DEF Crash, Fault, Cur
<1>3. RowsOK(Cur, file', maker', Moving')
  <2>1. Moving' = {} /\ maker' = [b \in Own |-> IF maker[b] = "new" THEN "new" ELSE "ended"]
    BY <1>2 DEF StartUp, Moving
  <2> QED
    BY <1>2, <2>1, Surroundings
<1>4. cut' \subseteq Backups
  <2>1. \A i \in Imports : imp[i].id \in Backups
    BY <1>1 DEF ImportRows
  <2> QED
    BY <1>1, <1>2, <2>1
<1>5. DestinationIsListed'
  BY <1>2 DEF IInv, DestinationIsListed
<1>6. backup' = Cur.backup
  BY <1>2 DEF Cur
<1>7. astray' = Cur.astray
  BY <1>2 DEF Cur
<1> QED
  BY <1>1, <1>2, <1>3, <1>4, <1>5, <1>6, <1>7, StartUpStep

\* The rows in a dump that was made elsewhere agree with the files here, since all
\* of its backups are astray.
LEMMA OtherRows ==
  ASSUME NEW R \in Elsewhere, Possible(R), NEW m, \A b \in Own : m[b] = "new" => maker[b] = "new"
  PROVE  R \in Rows /\ RowsOK(R, file, m, {})
<1>1. R \in Rows /\ OfAnother(R)
  OBVIOUS
<1>2. /\ \A i, j \in Imports : R.imp[i].status \in Active /\ R.imp[j].status \in Active => i = j
      /\ \A i \in Imports : R.imp[i].status = "imported" =>
           R.backup[R.imp[i].id].status = "succeeded" /\ R.backup[R.imp[i].id].sum = R.imp[i].sum
      /\ \A b \in Backups : R.backup[b].status = "succeeded" => R.backup[b].sum # 0 /\ b \in R.astray
  BY <1>1 DEF OfAnother
<1>3. /\ \A b \in Own : R.backup[b].status = "succeeded" => file[b]["own"] = 1
      /\ \A b \in Own : m[b] = "new" => R.backup[b] = NoBackup
      /\ \A i \in Imports : R.imp[i].status # "none" /\ R.imp[i].id \in Own => file[R.imp[i].id]["own"] = 1
  BY DEF Possible
<1> QED
  BY <1>1, <1>2, <1>3 DEF RowsOK

\* The rows of a dump come back with the backup's own row listed.
LEMMA RestoreStep ==
  ASSUME IInv, NEW b \in Backups, Restore(b)
  PROVE  IInv'
<1> DEFINE local == b \in Own /\ backup[b].sum = 1
<1>1. /\ TypeOK /\ Cur \in Rows /\ backup \in [Backups -> BackupRows] /\ cut \subseteq Backups
      /\ faults \in 0..MaxFaults /\ \A c \in Own : dump[c] \in Rows
  BY TypeParts DEF IInv
<1>2. PICK R \in Dumped(b) :
        /\ backup' = [R.backup EXCEPT ![b] = [@ EXCEPT !.status = "succeeded", !.sum = backup[b].sum]]
        /\ astray' = R.astray /\ StartUp(R.imp)
  BY DEF Restore
<1> DEFINE r == [R.backup[b] EXCEPT !.status = "succeeded", !.sum = backup[b].sum]
           brought == [backup |-> [R.backup EXCEPT ![b] = r], imp |-> R.imp, astray |-> R.astray]
<1>2a. /\ UNCHANGED <<dump, file>> /\ faults' \in 0..MaxFaults /\ backup[b].status = "succeeded"
       /\ file[b][backup[b].place] = backup[b].sum
       /\ cut' = cut \cup {c \in Backups : file[c]["imported"] # 0}
  BY <1>1 DEF Restore, Fault, Served, Listed, Intact, Occupied
<1>3. Moving' = {} /\ maker' = [c \in Own |-> IF maker[c] = "new" THEN "new" ELSE "ended"]
  BY <1>2 DEF StartUp, Moving
<1>4. /\ backup[b].sum \in 1..2
      /\ b \in Own => maker'[b] # "new" /\ file[b]["own"] = 1
  <2>1. backup[b].sum \in 0..2
    BY <1>1 DEF BackupRows
  <2>2. backup[b].sum # 0 /\ (b \in Own => file[b]["own"] = 1)
    BY <1>2a DEF IInv, RowsOK, Cur
  <2>3. b \in Own => maker[b] # "new"
    BY <2>2 DEF IInv, MakerOK
  <2> QED
    BY <1>3, <2>1, <2>2, <2>3
<1>5. /\ R \in Rows /\ RowsOK(R, file', maker', Moving')
      /\ R.backup[b].status # "succeeded" /\ R.backup[b].place = "own"
      /\ b \in R.astray \/ local
  <2>1. CASE local
    <3>1. R = dump[b] /\ b \in Own
      BY <1>2, <2>1 DEF Dumped
    <3>2. RowsOK(dump[b], file', maker', Moving')
      BY <1>2a, <1>3, <3>1, Surroundings
    <3>3. dump[b].backup[b].status # "succeeded" /\ dump[b].backup[b].place = "own"
      BY <3>1 DEF IInv, MakerOK
    <3> QED
      BY <1>1, <2>1, <3>1, <3>2, <3>3
  <2>2. CASE ~local
    <3>1. R \in Elsewhere /\ R.backup[b] = Requested /\ Possible(R)
      BY <1>2, <2>2 DEF Dumped
    <3>2. R \in Rows /\ RowsOK(R, file', maker', Moving')
      BY <1>2a, <1>3, <3>1, OtherRows
    <3>3. R.backup[b].status = "running" /\ R.backup[b].place = "own"
      BY <3>1 DEF Requested, NoBackup
    <3>4. b \in R.astray
      BY <3>1, <3>3 DEF OfAnother
    <3> QED
      BY <3>2, <3>3, <3>4
  <2> QED
    BY <2>1, <2>2
<1>6. /\ r \in BackupRows /\ r.status = "succeeded" /\ r.sum = backup[b].sum /\ r.place = "own"
  <2>1. R.backup[b] \in BackupRows /\ backup[b].sum \in 0..2
    BY <1>4, <1>5 DEF Rows
  <2> QED
    BY <1>5, <2>1 DEF BackupRows
<1>7. brought \in Rows
  BY <1>5, <1>6 DEF Rows
<1>8. RowsOK(brought, file', maker', Moving')
  <2>1. file'[b]["own"] = backup[b].sum \/ b \in R.astray
    <3>1. CASE local
      BY <1>2a, <1>4, <3>1
    <3> QED
      BY <1>5, <3>1
  <2>2. r.status = "succeeded" =>
          /\ r.sum # 0
          /\ file'[b][r.place] = r.sum \/ b \in R.astray
          /\ b \in Own => file'[b]["own"] = 1
          /\ b \in Moving' /\ r.place = "imported" => b \in R.astray
    BY <1>2a, <1>4, <1>6, <2>1
  <2>3. b \in Own => maker'[b] # "new"
    BY <1>4
  <2> HIDE DEF r
  <2> QED
    BY <1>5, <2>2, <2>3, BackupRowStep
<1>9. DestinationIsListed'
  BY <1>2a DEF DestinationIsListed
<1>10. cut' \subseteq Backups
  BY <1>1, <1>2a
<1>11. backup' = brought.backup /\ astray' = brought.astray /\ StartUp(brought.imp)
  BY <1>2
<1> HIDE DEF brought
<1> QED
  BY <1>2a, <1>7, <1>8, <1>9, <1>10, <1>11, StartUpStep

-----------------------------------------------------------------------------
(* The theorems *)

LEMMA StepInvariant == IInv /\ [Next]_vars => IInv'
<1> SUFFICES ASSUME IInv, [Next]_vars PROVE IInv'
  OBVIOUS
<1>1. CASE UNCHANGED vars
  <2>1. UNCHANGED <<backup, imp, dump, file, held, maker, at, cut, astray, faults>>
    BY <1>1 DEF vars
  <2>2. TypeOK' /\ Cur' = Cur /\ Moving' = Moving
    BY <2>1, TypeParts, TypePartsNext DEF IInv, Cur, Moving
  <2>3. RowsOK(Cur', file', maker', Moving')
        /\ \A b \in Own : RowsOK(dump'[b], file', maker', Moving')
    BY <2>1, <2>2, Surroundings
  <2>4. (\A i \in Imports : WorkOK(i)') /\ (\A b \in Own : MakerOK(b)') /\ DestinationIsListed'
    BY <2>1 DEF IInv, WorkOK, MakerOK, DestinationIsListed
  <2> QED
    BY <2>2, <2>3, <2>4, InvariantNext
<1>2. CASE Next
  BY <1>2, MakerStep, StartUploadStep, RequestStep, LookStep, MoveStep, ListStep, CrashStep, RestoreStep
     DEF Next
<1> QED
  BY <1>1, <1>2

THEOREM Invariance == Spec => []IInv
  BY InitInvariant, StepInvariant, PTL DEF Spec

\* The model is well typed: no step leaves a row, a dump, a file or a request in
\* a state the others do not know.
THEOREM ImportTypes == Spec => []TypeOK
<1>1. IInv => TypeOK
  BY DEF IInv
<1> QED
  BY <1>1, Invariance, PTL

\* A listed backup has its artifact, unless its row came with the dump of another
\* instance, whatever rows that has.
THEOREM ListedHasArtifact == Spec => []BackupHasArtifact
<1>1. IInv => BackupHasArtifact
  BY DEF IInv, RowsOK, Cur, BackupHasArtifact
<1> QED
  BY <1>1, Invariance, PTL

\* An import that reports success has its backup in the list.
THEOREM ImportIsListed == Spec => []ImportedIsListed
<1>1. IInv => ImportedIsListed
  BY DEF IInv, RowsOK, Cur, ImportedIsListed
<1> QED
  BY <1>1, Invariance, PTL

\* No rejected import stands in the way of a later one, unless a step failed in
\* between.
THEOREM DestinationIsFree == Spec => []DestinationIsListed
<1>1. IInv => DestinationIsListed
  BY DEF IInv
<1> QED
  BY <1>1, Invariance, PTL
=============================================================================
