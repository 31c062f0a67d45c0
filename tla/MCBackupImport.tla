---------------------------- MODULE MCBackupImport ---------------------------
EXTENDS BackupImport, TLC

ImportSymmetry == Permutations(Imports)

\* The rows of other instances: one backup is running, the one whose dump this is,
\* each other is unknown, made there, or imported there; one import at most is
\* still to be validated, and one of what was imported is known.
NoImports == [i \in Imports |-> NoImport]
Listings == {NoBackup, [status |-> "succeeded", place |-> "own", sum |-> 1],
             [status |-> "succeeded", place |-> "imported", sum |-> 2]}
BackupsElsewhere == UNION {{[b \in Backups |-> IF b = d THEN Requested ELSE B[b]] : B \in [Backups -> Listings]} :
                           d \in Backups}
ImportsElsewhere(B) ==
  {NoImports}
  \cup {[NoImports EXCEPT ![i] = [status |-> "uploaded", id |-> b, sum |-> 1]] : i \in Imports, b \in Backups}
  \cup {[NoImports EXCEPT ![i] = [status |-> "imported", id |-> b, sum |-> B[b].sum]] :
          i \in Imports, b \in {c \in Backups : B[c].status = "succeeded"}}
ElsewhereMC ==
  UNION {{[backup |-> B, imp |-> I, astray |-> {b \in Backups : B[b].status # "none"}] : I \in ImportsElsewhere(B)} :
         B \in BackupsElsewhere}
=============================================================================
